---- MODULE Spec2Model ----
(***************************************************************************)
(* Jdrasil native layer: the PBLib wrapper (lib/pblib/pseudo_PBLib.cpp),   *)
(* an incremental cardinality-constraint encoder behind a handle that      *)
(* owns a clause log (VectorClauseDatabase) and one constraint             *)
(* (IncPBConstraint).  The module follows one handle, from the myDatas     *)
(* object that Java_pseudo_PBLib_init constructs, through the calls made   *)
(* on it.  The wrapper functions are modelled from the source;             *)
(* the PBLib classes they call (AuxVarManager, IncPBConstraint, PB2CNF,    *)
(* VectorClauseDatabase) are not part of the source tree and are modelled  *)
(* from the specification (sections 4.2 - 4.5).                            *)
(*                                                                         *)
(* A second program of the same layer, the lingeling driver (lglmain.c),   *)
(* is followed under a specification of its own, SpecLgl: one run of main  *)
(* over one DIMACS input file.  Under Spec the driver is not started, and  *)
(* under SpecLgl the handle stays as Java_pseudo_PBLib_init left it.       *)
(* SpecDrv is the same run with its command line options (-s, -q, -w, -T), *)
(* comments in the input and the alarm signal.                             *)
(*                                                                         *)
(* The IPASIR bridge (jdrasil_sat_NativeSATSolver.cpp over the Lingeling   *)
(* and the PicoSAT adapter) is followed under SpecNat, one solver with a   *)
(* solving thread and a terminating thread, and under SpecNatFair with     *)
(* fairness for the solving thread.  The Glucose wrappers (gluc_JGlucose,  *)
(* glucp_JPGlucose, glucp/JGlucose) are followed under SpecGluc.  The      *)
(* engines behind them are not part of the source tree: a solve is any     *)
(* outcome the engine's contract allows.                                   *)
(***************************************************************************)
EXTENDS Integers, Sequences, FiniteSets, TLC

VARIABLES
    formula,    \* myDatas::formula, the clause log of the handle
    constraint, \* myDatas::constraint
    ret,        \* what the last wrapper call returned (or how it failed)
    calls,      \* number of encode calls that changed the handle so far
    mark,       \* length of the log when the current constraint's initial
                \* encode began (mark = length() before encodeInitial)
    issuedBy    \* per encode call so far, the variables its AuxVarManager issued

vars == <<formula, constraint, ret, calls, mark, issuedBy>>

\* one run of the lingeling driver (lglmain.c)
VARIABLES
    pc,               \* where main is: in parse (at the header, at BODY),
                      \* after parse, after lglsat, or exited
    ignmissingheader, \* static int ignmissingheader (-f, --force)
    ignaddcls,        \* static int ignaddcls (-i, --ignore)
    inp,              \* FILE * in: the input file and the read position
    parseLoc,         \* the locals of parse: header, section, m, n, v, l, c
    mainLoc,          \* the locals of main: err, lineno, res
    lgl,              \* LGL * lgl: what the engine was given and asked
    stdout,           \* the lines written to stdout
    stderr,           \* the lines written to stderr
    verbose,          \* static int verbose
    timelimit,        \* static int timelimit (-T <seconds>)
    caughtalarm,      \* static int caughtalarm
    alrm              \* SIGALRM as the system holds it: the handler that
                      \* is installed, and whether an alarm is pending

lglvars == <<pc, ignmissingheader, ignaddcls, inp, parseLoc, mainLoc, lgl,
             stdout, stderr, verbose, timelimit, caughtalarm, alrm>>

\* one solver object of jdrasil.sat.NativeSATSolver and the threads that
\* call it (jdrasil_sat_NativeSATSolver.cpp over one ipasirsolver.c)
VARIABLES
    backend,      \* the ipasirsolver.c linked in: "Lingeling" or "PicoSAT"
    isTerminated, \* isTerminated[instance]
    currentState, \* the state the Java object holds (setCurrentState)
    instance,     \* the engine behind the pointer the Java object holds
    solveLoc,     \* where the thread inside solve is, and its result
    jcall         \* the last native call that returned: op, argument, value

natvars == <<backend, isTerminated, currentState, instance, solveLoc, jcall>>

\* one solver of a Glucose wrapper (gluc_JGlucose.cpp, glucp_JPGlucose.cpp,
\* glucp/JGlucose.cpp)
VARIABLES
    wrapper,      \* the wrapper in use: "gluc", "glucp" or "JGlucose"
    S,            \* the solver behind the handle
    gcall         \* the last native call that returned

glucvars == <<wrapper, S, gcall>>

allvars == <<vars, lglvars, natvars, glucvars>>

(***************************************************************************)
(* Bounds of the model.                                                    *)
(***************************************************************************)
\* encode calls that change the handle, per run
MaxCalls == 3

\* the literal array (jintArray arr) the caller passes
Arr == <<1, 2, 3>>
\* the caller's formula uses the variables 1 .. NumVars
NumVars == Len(Arr)
\* the values of the parameter n
Lens == {0, NumVars}
\* the values of the parameter k
Ks == -1 .. NumVars
\* the values of the parameter m: the first free variable, or one past the
\* variables a first network over NumVars literals can take
Ms == {NumVars + 1, NumVars + 1 + (NumVars * (NumVars + 1)) \div 2}

(***************************************************************************)
(* Literal domain (spec 4.1).                                              *)
(***************************************************************************)
negate(lit) == -lit
variableOf(lit) == IF lit < 0 THEN -lit ELSE lit

Min(a, b) == IF a < b THEN a ELSE b
Range(s) == {s[i] : i \in 1..Len(s)}

(***************************************************************************)
(* Satisfiability of a clause list under an assignment of the original     *)
(* variables: is there an extension to the remaining variables.            *)
(***************************************************************************)
\* the clause list as a set of literal sets
ClauseSet(cls) == {Range(cls[i]) : i \in 1..Len(cls)}

\* make literal l true: drop satisfied clauses, remove the false literal
Assign(F, l) == {c \ {-l} : c \in {d \in F : l \notin d}}

RECURSIVE Sat(_)
Sat(F) ==
    IF F = {} THEN TRUE
    ELSE IF {} \in F THEN FALSE
    ELSE LET units == {c \in F : Cardinality(c) = 1}
             l == IF units # {}
                  THEN CHOOSE x \in UNION units : TRUE
                  ELSE CHOOSE x \in UNION F : TRUE
         IN  IF units # {}
             THEN Sat(Assign(F, l))
             ELSE Sat(Assign(F, l)) \/ Sat(Assign(F, -l))

\* the literals fixing the variables 1..NumVars to the set T of true ones
RECURSIVE AssignAll(_, _, _)
AssignAll(F, T, v) ==
    IF v > NumVars THEN F
    ELSE AssignAll(Assign(F, IF v \in T THEN v ELSE -v), T, v + 1)

SatUnder(cls, T) == Sat(AssignAll(ClauseSet(cls), T, 1))

\* number of literals of lits that are true when exactly the variables T are
TrueCount(lits, T) ==
    Cardinality({i \in 1..Len(lits) :
                    IF lits[i] > 0 THEN lits[i] \in T ELSE (-lits[i]) \notin T})

(***************************************************************************)
(* Fresh-variable allocator (spec 4.2; PBLib AuxVarManager).               *)
(***************************************************************************)
\* AuxVarManager auxvars(m): the cursor starts at m
AuxVarManager(m) == [cursor |-> m, issued |-> <<>>]

\* alloc(): returns the cursor and increments it
alloc(a) ==
    [var  |-> a.cursor,
     next |-> [cursor |-> a.cursor + 1, issued |-> Append(a.issued, a.cursor)]]

RECURSIVE allocN(_, _)
allocN(a, cnt) == IF cnt <= 0 THEN a ELSE allocN(alloc(a).next, cnt - 1)

(***************************************************************************)
(* Clause log (spec 4.5; PBLib VectorClauseDatabase).                      *)
(***************************************************************************)
\* append(clause), for a whole list of clauses in order
appendAll(db, clauses) == db \o clauses

\* length()
length(db) == Len(db)

\* getClauses(): the whole log
getClauses(db) == db

\* since(mark): the tail of the log from index mark on (indices from 0)
since(db, from) == SubSeq(db, from + 1, Len(db))

(***************************************************************************)
(* Encoder (spec 4.4; PBLib PB2CNF / IncPBConstraint), cardinality case:   *)
(* a counting network whose wire s(i,j) is forced true when at least j of  *)
(* the first i literals are true; the bound k is enforced by -s(n,k+1).    *)
(***************************************************************************)
RowWidth(i, W) == Min(i, W)

\* number of wires in the rows before row i
RECURSIVE Offset(_, _)
Offset(i, W) == IF i <= 1 THEN 0 ELSE Offset(i - 1, W) + RowWidth(i - 1, W)

\* the network over lits counting up to W, its wires taken from allocator a
Network(lits, W, a) ==
    LET n == Len(lits)
        first == Len(a.issued)
        a2 == allocN(a, Offset(n + 1, W))
        s(i, j) == a2.issued[first + Offset(i, W) + j]
        cell(i, j) ==
            (IF i > 1 /\ j <= RowWidth(i - 1, W)
             THEN << <<negate(s(i - 1, j)), s(i, j)>> >> ELSE << >>)
            \o
            (IF j = 1
             THEN << <<negate(lits[i]), s(i, 1)>> >>
             ELSE << <<negate(lits[i]), negate(s(i - 1, j - 1)), s(i, j)>> >>)
        row(i) ==
            LET r[j \in 0..RowWidth(i, W)] ==
                    IF j = 0 THEN << >> ELSE r[j - 1] \o cell(i, j)
            IN  r[RowWidth(i, W)]
        all[i \in 0..n] == IF i = 0 THEN << >> ELSE all[i - 1] \o row(i)
    IN  [clauses |-> all[n],
         outputs |-> [j \in 1..RowWidth(n, W) |-> s(n, j)],
         auxvars |-> a2]

\* the constraint as "at most leq of lits": an AtLeast k over n literals is
\* an AtMost n-k over the negated literals
NormLits(literals, comparator) ==
    IF comparator = "GEQ"
    THEN [i \in 1..Len(literals) |-> negate(literals[i])]
    ELSE literals

NormLeq(literals, comparator, k) ==
    IF comparator = "GEQ" THEN Len(literals) - k ELSE k

\* IncPBConstraint(): the constraint of a fresh handle, nothing built
DefaultConstraint ==
    [comparator |-> "NONE", literals |-> << >>, bound |-> 0,
     hasNet |-> FALSE, outputs |-> << >>, falsified |-> FALSE]

\* construct(literals, relation, bound) is rejected for an empty literal set
\* (the wrapper's weights are all 1, never 0)
ValidConstraint(literals) == Len(literals) > 0

\* IncPBConstraint constraint(literals, comparator, k)
IncPBConstraint(literals, comparator, k) ==
    [comparator |-> comparator, literals |-> literals, bound |-> k,
     hasNet |-> FALSE, outputs |-> << >>, falsified |-> FALSE]

\* build the network for "at most leq of lits" and enforce leq on it
BuildAndBound(c, lits, leq, db, a) ==
    LET net == Network(lits, leq + 1, a)
    IN  [constraint |-> [c EXCEPT !.hasNet = TRUE, !.outputs = net.outputs],
         formula    |-> appendAll(db, net.clauses
                                      \o << <<negate(net.outputs[leq + 1])>> >>),
         auxvars    |-> net.auxvars]

\* encodeInitial(constraint, log, allocator)
encodeIncInital(c, db, a) ==
    LET lits == NormLits(c.literals, c.comparator)
        leq == NormLeq(c.literals, c.comparator, c.bound)
    IN  IF leq >= Len(lits)
        THEN \* trivially true: nothing is appended
             [constraint |-> c, formula |-> db, auxvars |-> a]
        ELSE IF leq < 0
        THEN \* trivially false: the empty clause
             [constraint |-> [c EXCEPT !.falsified = TRUE],
              formula |-> appendAll(db, << << >> >>), auxvars |-> a]
        ELSE BuildAndBound(c, lits, leq, db, a)

\* encodeTighten(constraint, newBound, log, allocator), newLeq the new bound
\* of the normalised constraint, already known to be stricter
encodeTighten(c, newLeq, db, a) ==
    LET lits == NormLits(c.literals, c.comparator)
    IN  IF newLeq < 0
        THEN IF c.falsified
             THEN [constraint |-> c, formula |-> db, auxvars |-> a]
             ELSE [constraint |-> [c EXCEPT !.falsified = TRUE],
                   formula |-> appendAll(db, << << >> >>), auxvars |-> a]
        ELSE IF c.hasNet
        THEN [constraint |-> c,
              formula |-> appendAll(db, << <<negate(c.outputs[newLeq + 1])>> >>),
              auxvars |-> a]
        ELSE IF newLeq >= Len(lits)
        THEN [constraint |-> c, formula |-> db, auxvars |-> a]
        ELSE BuildAndBound(c, lits, newLeq, db, a)

\* tightenLeq(newBound)
encodeNewLeq(c, k, db, a) ==
    IF c.comparator # "LEQ"
    THEN [status |-> "NotApplicable", constraint |-> c, formula |-> db, auxvars |-> a]
    ELSE IF k >= c.bound
    THEN [status |-> "NonMonotonicBound", constraint |-> c, formula |-> db, auxvars |-> a]
    ELSE LET r == encodeTighten(c, k, db, a)
         IN  [status |-> "ok", constraint |-> [r.constraint EXCEPT !.bound = k],
              formula |-> r.formula, auxvars |-> r.auxvars]

\* tightenGeq(newBound)
encodeNewGeq(c, k, db, a) ==
    IF c.comparator # "GEQ"
    THEN [status |-> "NotApplicable", constraint |-> c, formula |-> db, auxvars |-> a]
    ELSE IF k <= c.bound
    THEN [status |-> "NonMonotonicBound", constraint |-> c, formula |-> db, auxvars |-> a]
    ELSE LET r == encodeTighten(c, Len(c.literals) - k, db, a)
         IN  [status |-> "ok", constraint |-> [r.constraint EXCEPT !.bound = k],
              formula |-> r.formula, auxvars |-> r.auxvars]

\* PB2CNF::encodeAtMostK(ls, k, formula, m): the constraint encoded alone,
\* from scratch, into an empty clause list
encodeAtMostK(ls, k, m) ==
    encodeIncInital(IncPBConstraint(ls, "LEQ", k), << >>, AuxVarManager(m)).formula

(***************************************************************************)
(* The wrapper (pseudo_PBLib.cpp).                                         *)
(***************************************************************************)
\* what a wrapper call hands back: on "ok" the clause list it returns; oldc
\* is the length of the handle's log when the call began
Returned(op, status, clauses, oldc) ==
    [op |-> op, status |-> status, clauses |-> clauses, oldc |-> oldc]

\* the variables issued by the call's AuxVarManager, remembered per call
Remember(m, a) ==
    IF Len(a.issued) = 0 THEN issuedBy
    ELSE Append(issuedBy, [start |-> m, vars |-> a.issued])

\* the first n elements of the Java array
Body(arr, n) == SubSeq(arr, 1, n)

\* Java_pseudo_PBLib_init: a new myDatas with an empty formula and a
\* default-constructed constraint
InitHandle ==
    /\ formula = << >>
    /\ constraint = DefaultConstraint
    /\ ret = Returned("init", "ok", << >>, 0)
    /\ calls = 0
    /\ mark = 0
    /\ issuedBy = << >>

\* the lingeling driver is another program: here it has not been started
NotStarted ==
    /\ pc = "idle"
    /\ ignmissingheader = 0
    /\ ignaddcls = 0
    /\ inp = << >>
    /\ parseLoc = << >>
    /\ mainLoc = << >>
    /\ lgl = << >>
    /\ stdout = << >>
    /\ stderr = << >>
    /\ verbose = 0
    /\ timelimit = -1
    /\ caughtalarm = 0
    /\ alrm = << >>

\* no NativeSATSolver object has been made
NatOff ==
    /\ backend = ""
    /\ isTerminated = 0
    /\ currentState = ""
    /\ instance = << >>
    /\ solveLoc = << >>
    /\ jcall = << >>

\* no Glucose solver has been made
GlucOff ==
    /\ wrapper = ""
    /\ S = << >>
    /\ gcall = << >>

Init == InitHandle /\ NotStarted /\ NatOff /\ GlucOff

\* InitIter with the allocator started at n, the argument next to m
InitIter_allocFromN(op, comparator, arr, n, k, m) ==
    LET literals == Body(arr, n)
        oldc == length(formula)
    IN  IF ~ValidConstraint(literals)
        THEN /\ ret' = Returned(op, "InvalidConstraint", << >>, oldc)
             /\ UNCHANGED <<formula, constraint, calls, mark, issuedBy>>
        ELSE LET r == encodeIncInital(IncPBConstraint(literals, comparator, k),
                                      formula, AuxVarManager(n))
             IN  /\ constraint' = r.constraint
                 /\ formula' = r.formula
                 /\ ret' = Returned(op, "ok", getClauses(r.formula), oldc)
                 /\ calls' = calls + 1
                 /\ mark' = oldc
                 /\ issuedBy' = Remember(m, r.auxvars)

\* InitIter with the log emptied before the new constraint is encoded
InitIter_freshLog(op, comparator, arr, n, k, m) ==
    LET literals == Body(arr, n)
        oldc == length(formula)
    IN  IF ~ValidConstraint(literals)
        THEN /\ ret' = Returned(op, "InvalidConstraint", << >>, oldc)
             /\ UNCHANGED <<formula, constraint, calls, mark, issuedBy>>
        ELSE LET r == encodeIncInital(IncPBConstraint(literals, comparator, k),
                                      << >>, AuxVarManager(m))
             IN  /\ constraint' = r.constraint
                 /\ formula' = r.formula
                 /\ ret' = Returned(op, "ok", getClauses(r.formula), oldc)
                 /\ calls' = calls + 1
                 /\ mark' = 0
                 /\ issuedBy' = Remember(m, r.auxvars)

\* InitIter with the new constraint stored in the handle before it is
\* validated
InitIter_storeFirst(op, comparator, arr, n, k, m) ==
    LET literals == Body(arr, n)
        oldc == length(formula)
    IN  IF ~ValidConstraint(literals)
        THEN /\ constraint' = IncPBConstraint(literals, comparator, k)
             /\ ret' = Returned(op, "InvalidConstraint", << >>, oldc)
             /\ UNCHANGED <<formula, calls, mark, issuedBy>>
        ELSE LET r == encodeIncInital(IncPBConstraint(literals, comparator, k),
                                      formula, AuxVarManager(m))
             IN  /\ constraint' = r.constraint
                 /\ formula' = r.formula
                 /\ ret' = Returned(op, "ok", getClauses(r.formula), oldc)
                 /\ calls' = calls + 1
                 /\ mark' = oldc
                 /\ issuedBy' = Remember(m, r.auxvars)

\* the common body of initIterAtMostK and initIterAtLeastK
InitIter(op, comparator, arr, n, k, m) ==
    LET auxvars == AuxVarManager(m)
        literals == Body(arr, n)
        oldc == length(formula)
    IN  IF ~ValidConstraint(literals)
        THEN /\ ret' = Returned(op, "InvalidConstraint", << >>, oldc)
             /\ UNCHANGED <<formula, constraint, calls, mark, issuedBy>>
        ELSE LET r == encodeIncInital(IncPBConstraint(literals, comparator, k),
                                      formula, auxvars)
             IN  /\ constraint' = r.constraint
                 /\ formula' = r.formula
                 /\ ret' = Returned(op, "ok", getClauses(r.formula), oldc)
                 /\ calls' = calls + 1
                 /\ mark' = oldc
                 /\ issuedBy' = Remember(m, r.auxvars)

\* initIterAtMostK with the comparator of its twin initIterAtLeastK
initIterAtMostK_asGeq(arr, n, k, m) ==
    /\ calls < MaxCalls
    /\ InitIter("initIterAtMostK", "GEQ", arr, n, k, m)
    /\ UNCHANGED <<lglvars, natvars, glucvars>>

\* Java_pseudo_PBLib_initIterAtMostK(arr, n, k, m, handle)
initIterAtMostK(arr, n, k, m) ==
    /\ calls < MaxCalls
    /\ InitIter("initIterAtMostK", "LEQ", arr, n, k, m)
    /\ UNCHANGED <<lglvars, natvars, glucvars>>

\* Java_pseudo_PBLib_initIterAtLeastK(arr, n, k, m, handle)
initIterAtLeastK(arr, n, k, m) ==
    /\ calls < MaxCalls
    /\ InitIter("initIterAtLeastK", "GEQ", arr, n, k, m)
    /\ UNCHANGED <<lglvars, natvars, glucvars>>

\* CIter with the copy loop starting at index 0 instead of oldc
CIter_wholeLog(op, r, m) ==
    IF r.status # "ok"
    THEN /\ ret' = Returned(op, r.status, << >>, length(formula))
         /\ UNCHANGED <<formula, constraint, calls, mark, issuedBy>>
    ELSE /\ constraint' = r.constraint
         /\ formula' = r.formula
         /\ ret' = Returned(op, "ok", getClauses(r.formula), length(formula))
         /\ calls' = calls + 1
         /\ issuedBy' = Remember(m, r.auxvars)
         /\ UNCHANGED mark

\* CIter with the encode call writing to a copy of the formula: the
\* constraint is tightened, the handle's log is not
CIter_copyOfLog(op, r, m) ==
    IF r.status # "ok"
    THEN /\ ret' = Returned(op, r.status, << >>, length(formula))
         /\ UNCHANGED <<formula, constraint, calls, mark, issuedBy>>
    ELSE /\ constraint' = r.constraint
         /\ formula' = formula
         /\ ret' = Returned(op, "ok", << >>, length(formula))
         /\ calls' = calls + 1
         /\ issuedBy' = Remember(m, r.auxvars)
         /\ UNCHANGED mark

\* CIter without the test of the encode call's outcome: a rejected tighten
\* is returned like a successful one
CIter_ignoreStatus(op, r, m) ==
    /\ constraint' = r.constraint
    /\ formula' = r.formula
    /\ ret' = Returned(op, "ok", since(r.formula, length(formula)), length(formula))
    /\ calls' = calls + 1
    /\ issuedBy' = Remember(m, r.auxvars)
    /\ UNCHANGED mark

\* CIter with the copy loop starting one index late, at oldc + 1
CIter_skipFirst(op, r, m) ==
    LET oldc == length(formula)
        clauses == getClauses(r.formula)
        newc == length(clauses)
        res == [i \in 1..(newc - oldc - 1) |-> clauses[oldc + 1 + i]]
    IN  IF r.status # "ok"
        THEN /\ ret' = Returned(op, r.status, << >>, oldc)
             /\ UNCHANGED <<formula, constraint, calls, mark, issuedBy>>
        ELSE /\ constraint' = r.constraint
             /\ formula' = r.formula
             /\ ret' = Returned(op, "ok", res, oldc)
             /\ calls' = calls + 1
             /\ UNCHANGED mark
             /\ issuedBy' = Remember(m, r.auxvars)

\* the common tail of citerAtMostK and citerAtLeastK: r is what the encode
\* call did; the clauses at the indices oldc .. newc-1 are returned
CIter(op, r, m) ==
    LET oldc == length(formula)
        clauses == getClauses(r.formula)
        newc == length(clauses)
        res == [i \in 1..(newc - oldc) |-> clauses[oldc + i]]
    IN  IF r.status # "ok"
        THEN /\ ret' = Returned(op, r.status, << >>, oldc)
             /\ UNCHANGED <<formula, constraint, calls, mark, issuedBy>>
        ELSE /\ constraint' = r.constraint
             /\ formula' = r.formula
             /\ ret' = Returned(op, "ok", res, oldc)
             /\ calls' = calls + 1
             /\ UNCHANGED mark
             /\ issuedBy' = Remember(m, r.auxvars)

\* citerAtMostK calling the encode function of its twin citerAtLeastK
citerAtMostK_callsGeq(k, m) ==
    /\ calls < MaxCalls
    /\ CIter("citerAtMostK",
             encodeNewGeq(constraint, k, formula, AuxVarManager(m)), m)
    /\ UNCHANGED <<lglvars, natvars, glucvars>>

\* Java_pseudo_PBLib_citerAtMostK(k, m, handle)
citerAtMostK(k, m) ==
    /\ calls < MaxCalls
    /\ CIter("citerAtMostK",
             encodeNewLeq(constraint, k, formula, AuxVarManager(m)), m)
    /\ UNCHANGED <<lglvars, natvars, glucvars>>

\* Java_pseudo_PBLib_citerAtLeastK(k, m, handle)
citerAtLeastK(k, m) ==
    /\ calls < MaxCalls
    /\ CIter("citerAtLeastK",
             encodeNewGeq(constraint, k, formula, AuxVarManager(m)), m)
    /\ UNCHANGED <<lglvars, natvars, glucvars>>

\* Java_pseudo_PBLib_generateAtMostK(arr, n, k, m): it takes no handle and
\* works on a formula of its own, so it is followed before the first encode
\* call on the handle
generateAtMostK(arr, n, k, m) ==
    /\ calls = 0
    /\ ret' = IF ValidConstraint(Body(arr, n))
              THEN Returned("generateAtMostK", "ok",
                            encodeAtMostK(Body(arr, n), k, m), 0)
              ELSE Returned("generateAtMostK", "InvalidConstraint", << >>, 0)
    /\ UNCHANGED <<formula, constraint, calls, mark, issuedBy>>
    /\ UNCHANGED <<lglvars, natvars, glucvars>>

\* readTail moving the tail out of the log instead of copying it
readTail_draining(from) ==
    LET clauses == getClauses(formula)
        newc == length(clauses)
        res == [i \in 1..(newc - from) |-> clauses[from + i]]
    IN  /\ ret' = Returned("read",
                           IF ret.op = "read" /\ ret.oldc = from
                           THEN "reread" ELSE "ok", res, from)
        /\ formula' = SubSeq(formula, 1, from)
        /\ UNCHANGED <<constraint, calls, mark, issuedBy>>
        /\ UNCHANGED <<lglvars, natvars, glucvars>>

\* the read of the log's tail as citerAtMostK does it after the encode call
\* (getClauses, then the copy of the indices from .. newc-1), taken alone;
\* a read that repeats the mark of the read before it is told apart
readTail(from) ==
    LET clauses == getClauses(formula)
        newc == length(clauses)
        res == [i \in 1..(newc - from) |-> clauses[from + i]]
    IN  /\ ret' = Returned("read",
                           IF ret.op = "read" /\ ret.oldc = from
                           THEN "reread" ELSE "ok", res, from)
        /\ UNCHANGED <<formula, constraint, calls, mark, issuedBy>>
        /\ UNCHANGED <<lglvars, natvars, glucvars>>

\* encode calls on one AtMost constraint, and reads of the log between them
NextRead ==
    \/ \E k \in Ks : initIterAtMostK(Arr, NumVars, k, NumVars + 1)
    \/ \E k \in Ks : citerAtMostK(k, NumVars + 1)
    \/ \E from \in 0..Len(formula) : readTail(from)

SpecRead == Init /\ [][NextRead]_allvars

Next ==
    \/ \E n \in Lens, k \in Ks, m \in Ms : initIterAtMostK(Arr, n, k, m)
    \/ \E n \in Lens, k \in Ks, m \in Ms : initIterAtLeastK(Arr, n, k, m)
    \/ \E k \in Ks, m \in Ms : citerAtMostK(k, m)
    \/ \E k \in Ks, m \in Ms : citerAtLeastK(k, m)
    \/ \E n \in Lens, k \in Ks, m \in Ms : generateAtMostK(Arr, n, k, m)

Spec == Init /\ [][Next]_allvars

(***************************************************************************)
(* Properties.                                                             *)
(***************************************************************************)
CiterOps == {"citerAtMostK", "citerAtLeastK"}
InitIterOps == {"initIterAtMostK", "initIterAtLeastK"}
Assignments == SUBSET (1..NumVars)

\* C1: every successful citerAtMostK / citerAtLeastK call returns exactly the
\* clauses the call appended: the log after the call is the log before the
\* call followed by the returned list, in order.
C1_CiterReturnsDelta ==
    [][(ret'.op \in CiterOps /\ ret'.status = "ok")
          => formula' = formula \o ret'.clauses]_vars

\* a tighten returned a non-empty delta on top of a non-empty log
C1_Witness ==
    /\ ret.op \in CiterOps
    /\ ret.status = "ok"
    /\ Len(ret.clauses) > 0
    /\ Len(formula) > Len(ret.clauses)

\* C2: the clause log is append-only: in every step the old log is a prefix
\* of the new log, so entries keep their index and literals and the length
\* never decreases.
C2_AppendOnly ==
    [][/\ Len(formula') >= Len(formula)
       /\ SubSeq(formula', 1, Len(formula)) = formula]_vars

\* a second constraint was encoded on a handle whose log was not empty
C2_Witness ==
    /\ ret.op \in InitIterOps
    /\ ret.status = "ok"
    /\ ret.oldc > 0
    /\ Len(formula) > ret.oldc

\* the clauses of the current constraint: those appended since its initial
\* encode began
Cumulative == since(formula, mark)

\* C3: equivalence under incrementality: whenever the handle holds an AtMost
\* constraint (after its initial encode and after every tighten), the
\* clauses appended for it so far admit an extension of an assignment to the
\* original variables exactly when the from-scratch encoding of the same
\* literals with the current bound does.
C3_IncrementalEquivalence ==
    constraint.comparator = "LEQ" =>
        \A T \in Assignments :
            SatUnder(Cumulative, T)
              = SatUnder(encodeAtMostK(constraint.literals, constraint.bound,
                                       NumVars + 1), T)

\* an AtMost constraint was tightened, inside the representable range, below
\* the bound its network was built for
C3_Witness ==
    /\ ret.op = "citerAtMostK"
    /\ ret.status = "ok"
    /\ constraint.hasNet
    /\ constraint.bound >= 0
    /\ constraint.bound + 1 < Len(constraint.outputs)
    /\ Len(ret.clauses) > 0

\* C4 as claimed: after every successful initIterAtMostK call the returned
\* clauses are satisfiable with an assignment to the literals' variables
\* exactly when at most k of the literals are true.
C4_InitialEncodingCorrect ==
    (ret.op = "initIterAtMostK" /\ ret.status = "ok") =>
        \A T \in Assignments :
            SatUnder(ret.clauses, T)
              <=> (TrueCount(constraint.literals, T) <= constraint.bound)

C6_TrivialBounds ==
    [][\A n \in Lens \ {0}, k \in Ks, m \in Ms :
         /\ (ret'.op = "initIterAtMostK" /\ k >= n /\ initIterAtMostK(Arr, n, k, m))
              => (ret'.status = "ok" /\ formula' = formula)
         /\ (ret'.op = "initIterAtMostK" /\ k < 0 /\ initIterAtMostK(Arr, n, k, m))
              => /\ ret'.status = "ok"
                 /\ Len(formula') > Len(formula)
                 /\ \A T \in Assignments :
                        ~SatUnder(since(formula', Len(formula)), T)
         /\ (ret'.op = "generateAtMostK" /\ k >= n /\ generateAtMostK(Arr, n, k, m))
              => (ret'.status = "ok" /\ ret'.clauses = << >>)
         /\ (ret'.op = "generateAtMostK" /\ k < 0 /\ generateAtMostK(Arr, n, k, m))
              => /\ ret'.status = "ok"
                 /\ \A T \in Assignments : ~SatUnder(ret'.clauses, T)]_vars

\* a trivially true AtMost constraint was encoded on a handle whose log
\* already held clauses
C6_Witness ==
    /\ ret.op = "initIterAtMostK"
    /\ ret.status = "ok"
    /\ constraint.bound >= Len(constraint.literals)
    /\ ret.oldc > 0
    /\ Len(formula) = ret.oldc

\* a trivially false AtMost constraint was encoded
C6_WitnessFalse ==
    /\ ret.op = "initIterAtMostK"
    /\ ret.status = "ok"
    /\ constraint.bound < 0
    /\ Len(formula) > ret.oldc

\* C7 as claimed: the auxiliary variables issued to different encode calls
\* never collide with each other nor with a variable of the caller's
\* formula.
C7_NoAuxCollision ==
    /\ \A i, j \in 1..Len(issuedBy) :
          i < j => Range(issuedBy[i].vars) \cap Range(issuedBy[j].vars) = {}
    /\ \A i \in 1..Len(issuedBy) :
          \A v \in Range(issuedBy[i].vars) : v > NumVars

\* C8: fresh-variable uniqueness: the variables one allocator instance
\* issues are strictly increasing (so pairwise distinct, none issued twice)
\* and none is below the value the allocator was initialised at.
C8_FreshVariables ==
    \A c \in 1..Len(issuedBy) :
        LET vs == issuedBy[c].vars
        IN  /\ \A i \in 1..Len(vs) : vs[i] >= issuedBy[c].start
            /\ \A i \in 1..(Len(vs) - 1) : vs[i] < vs[i + 1]

\* one allocator instance issued at least three variables
C8_Witness ==
    \E c \in 1..Len(issuedBy) : Len(issuedBy[c].vars) >= 3

\* C9 as claimed: no clause in the delta of a successful citerAtMostK /
\* citerAtLeastK call equals a clause that was in the handle's log before
\* the call, and the clauses appended before keep their order.
C9_NoReEmission ==
    [][(ret'.op \in CiterOps /\ ret'.status = "ok")
          => /\ \A i \in 1..Len(ret'.clauses) : ret'.clauses[i] \notin Range(formula)
             /\ SubSeq(formula', 1, Len(formula)) = formula]_vars

\* C9 as amended: no clause in the delta of a successful citerAtMostK /
\* citerAtLeastK call equals a clause appended earlier for the same
\* constraint (since its initial encode began), and the whole log before the
\* call is kept, in order, as a prefix of the log after it.
C9_NoReEmissionSameConstraint ==
    [][(ret'.op \in CiterOps /\ ret'.status = "ok")
          => /\ \A i \in 1..Len(ret'.clauses) :
                    ret'.clauses[i] \notin Range(since(formula, mark))
             /\ SubSeq(formula', 1, Len(formula)) = formula]_vars

\* a tighten returned a non-empty delta for a constraint that already had
\* clauses of its own in the log
C9_Witness ==
    /\ ret.op \in CiterOps
    /\ ret.status = "ok"
    /\ Len(ret.clauses) > 0
    /\ ret.oldc > mark

\* C10 as claimed: the constraint of a handle leaves Unbuilt only by an
\* initial encode, no citerAtMostK / citerAtLeastK call is made on a handle
\* whose constraint is Unbuilt, and a tighten never raises the upper bound
\* of an AtMost constraint nor lowers the lower bound of an AtLeast
\* constraint.
C10_StateMachine ==
    [][/\ (constraint.comparator = "NONE" /\ constraint'.comparator # "NONE")
            => ret'.op \in InitIterOps
       /\ ret'.op \in CiterOps => constraint.comparator # "NONE"
       /\ (ret'.op \in CiterOps /\ constraint.comparator = "LEQ")
            => constraint'.bound <= constraint.bound
       /\ (ret'.op \in CiterOps /\ constraint.comparator = "GEQ")
            => constraint'.bound >= constraint.bound]_vars

C13_InitIterReturnsNew ==
    (ret.op \in InitIterOps /\ ret.status = "ok")
        => ret.clauses = since(formula, ret.oldc)

\* C14: tightening inside the representable range returns a non-empty
\* delta: on a handle that holds an AtMost constraint over n literals with
\* bound k, 0 < k < n, a citerAtMostK call with 0 <= k' < k succeeds and
\* returns at least one clause.
C14_NonEmptyDelta ==
    [][\A k \in Ks, m \in Ms :
         (/\ ret'.op = "citerAtMostK"
          /\ constraint.comparator = "LEQ"
          /\ 0 < constraint.bound
          /\ constraint.bound < Len(constraint.literals)
          /\ 0 <= k
          /\ k < constraint.bound
          /\ citerAtMostK(k, m))
            => /\ ret'.status = "ok"
               /\ Len(ret'.clauses) >= 1
               /\ ret'.clauses = since(formula', Len(formula))]_vars

\* Scenario B: AtMost over three literals encoded with bound 2 by the
\* handle's first call, then tightened to 1 by its second
C14_Witness ==
    /\ ret.op = "citerAtMostK"
    /\ ret.status = "ok"
    /\ calls = 2
    /\ constraint.literals = <<1, 2, 3>>
    /\ constraint.bound = 1
    /\ Len(constraint.outputs) = 3
    /\ Len(ret.clauses) >= 1

IntBits == 6
INT_MAX == 2^(IntBits - 1) - 1
INT_MIN == -(2^(IntBits - 1))
\* an int result that left the range, as two's complement keeps it
Wrap(x) == ((x - INT_MIN) % (2^IntBits)) + INT_MIN

\* the characters '0' .. '9'
DigitChars == <<"0", "1", "2", "3", "4", "5", "6", "7", "8", "9">>
isdigit(ch) == ch \in Range(DigitChars)
\* ch - '0'
DigitVal(ch) == (CHOOSE i \in 1..Len(DigitChars) : DigitChars[i] = ch) - 1

\* a number as the characters of its decimal notation
RECURSIVE Decimal(_)
Decimal(x) ==
    IF x < Len(DigitChars) THEN <<DigitChars[x + 1]>>
    ELSE Append(Decimal(x \div Len(DigitChars)),
                DigitChars[(x % Len(DigitChars)) + 1])

\* the number a digit string denotes
RECURSIVE Denoted(_, _)
Denoted(chars, i) ==
    IF i = 0 THEN 0
    ELSE Len(DigitChars) * Denoted(chars, i - 1) + DigitVal(chars[i])

\* the integer a token of the body denotes, sign included
TokenValue(tok) ==
    IF tok[1] = "-" THEN -Denoted(Tail(tok), Len(tok) - 1)
    ELSE Denoted(tok, Len(tok))

\* lit = ch - '0'; while (isdigit (ch = next (in, lp))) lit = 10 * lit +
\* (ch - '0'): the digits of chars from index i on, after acc; ovf tells
\* that a result left the range of int
RECURSIVE ReadInt(_, _, _)
ReadInt(chars, i, acc) ==
    IF i > Len(chars) \/ ~isdigit(chars[i]) THEN acc
    ELSE LET x == 10 * acc.val + DigitVal(chars[i])
         IN  ReadInt(chars, i + 1,
                     [val |-> Wrap(x),
                      ovf |-> acc.ovf \/ x > INT_MAX \/ x < INT_MIN])

\* the number that starts with the digit at index i of chars
ReadNumber(chars, i) ==
    ReadInt(chars, i + 1, [val |-> DigitVal(chars[i]), ovf |-> FALSE])

(***************************************************************************)
(* Input files.  A file is its header line, if it has one, and the tokens  *)
(* of its body; every token is followed by one white space character: a    *)
(* new line after a 0, a blank after anything else.                        *)
(***************************************************************************)
\* tokens per body
MaxTokens == 3

\* a literal past the range of int by two
BigToken == Decimal(INT_MAX + 2)

Tokens == {<<"1">>, <<"-", "2">>, <<"0">>, <<"3">>, BigToken, <<"o">>}

Bodies == UNION {[1..k -> Tokens] : k \in 0..MaxTokens}

\* the character that follows a token
Sep(tok) == IF tok = <<"0">> THEN "\n" ELSE " "

DimacsFile(p, fmt, m, n, body) ==
    [pre |-> << >>, p |-> p, fmt |-> fmt, m |-> m, n |-> n, body |-> body]

\* Scenario C: p cnf 2 2 / 1 -2 0 / -1 2 0
ScenarioC ==
    DimacsFile(TRUE, "cnf", <<"2">>, <<"2">>,
               << <<"1">>, <<"-", "2">>, <<"0">>,
                  <<"-", "1">>, <<"2">>, <<"0">> >>)

\* files with the header p cnf 2 n, files without a header line, one file
\* with a header of another format, and Scenario C
Files ==
    {DimacsFile(TRUE, "cnf", <<"2">>, n, b) :
        n \in {<<"0">>, <<"1">>, <<"2">>}, b \in Bodies}
    \cup {DimacsFile(FALSE, "", << >>, << >>, b) : b \in Bodies}
    \cup {DimacsFile(TRUE, "dnf", <<"2">>, <<"1">>, << <<"1">>, <<"0">> >>)}
    \cup {ScenarioC}

(***************************************************************************)
(* The engine, as the driver sees it.                                      *)
(***************************************************************************)
\* the names of the engine's options the driver itself asks for
Witness == <<"w", "i", "t", "n", "e", "s", "s">>
Verbose == <<"v", "e", "r", "b", "o", "s", "e">>

\* lglinit (): nothing added, nothing asked, the options at their defaults,
\* no termination callback
lglinit ==
    [added |-> << >>, important |-> << >>, nsat |-> 0, vals |-> {},
     opts |-> (Witness :> 1) @@ (Verbose :> 0), term |-> FALSE]
\* lglhasopt (lgl, name)
lglhasopt(e, name) == name \in DOMAIN e.opts
\* lglsetopt (lgl, name, val)
lglsetopt(e, name, val) == [e EXCEPT !.opts[name] = val]
\* lglgetopt (lgl, name)
lglgetopt(e, name) == e.opts[name]
\* lglseterm (lgl, fun, state)
lglseterm(e) == [e EXCEPT !.term = TRUE]
\* lgladd (lgl, lit)
lgladd(e, lit) == [e EXCEPT !.added = Append(@, lit)]
\* lglsetimportant (lgl, lit)
lglsetimportant(e, lit) == [e EXCEPT !.important = Append(@, lit)]

\* the clauses the engine holds: the literals added, cut at each 0
RECURSIVE ClausesOf(_, _, _)
ClausesOf(added, i, open) ==
    IF i > Len(added) THEN {}
    ELSE IF added[i] = 0 THEN {open} \cup ClausesOf(added, i + 1, {})
    ELSE ClausesOf(added, i + 1, open \cup {added[i]})

\* the variables of the clauses
VarsOf(cls) == {variableOf(lit) : lit \in UNION cls}

\* the assignment that makes exactly the variables T true satisfies cls
Satisfies(T, cls) ==
    \A cl \in cls :
        \E lit \in cl : IF lit > 0 THEN lit \in T ELSE (-lit) \notin T

\* the models of the engine's clauses, over the variables in them
Models(e) ==
    LET cls == ClausesOf(e.added, 1, {})
    IN  {T \in SUBSET VarsOf(cls) : Satisfies(T, cls)}

\* lglmaxvar (lgl): the largest variable the engine has seen
lglmaxvar(e) ==
    LET vs == {variableOf(e.added[i]) : i \in 1..Len(e.added)}
    IN  IF vs = {} THEN 0 ELSE CHOOSE x \in vs : \A y \in vs : y <= x

\* lglderef (lgl, i) > 0 ? i : -i
Deref(e, i) == IF i \in e.vals THEN i ELSE -i

(***************************************************************************)
(* main up to the call of parse, and parse.                                *)
(***************************************************************************)
\* main, lines 352-356 and the command line: lineno = 1, res = 0, simponly
\* as -s sets it, the engine e with the options of the command line,
\* timelimit as -T sets it; SIGALRM is as the process found it; parse is
\* entered with the file f to read
mainEnter(f, s, e, t) ==
    /\ pc = "SKIP"
    /\ inp = [file |-> f, pos |-> 1]
    /\ parseLoc = [header |-> 0, section |-> 0, m |-> 0, n |-> 0,
                   v |-> 0, l |-> 0, c |-> 0]
    /\ mainLoc = [err |-> "", lineno |-> 1, res |-> 0, simponly |-> s]
    /\ lgl = e
    /\ stdout = << >>
    /\ stderr = << >>
    /\ verbose = lglgetopt(e, Verbose)
    /\ timelimit = t
    /\ caughtalarm = 0
    /\ alrm = [handler |-> "SIG_DFL", armed |-> FALSE]

\* runs with the flags of -f and -i and no other option
InitLgl ==
    /\ InitHandle
    /\ ignmissingheader \in {0, 1}
    /\ ignaddcls \in {0, 1}
    /\ \E f \in Files : mainEnter(f, 0, lglinit, -1)
    /\ NatOff
    /\ GlucOff

\* a line of output: its first word, the rest of a text line, the numbers
\* of a v line
Line(tag, text, lits) == [tag |-> tag, text |-> text, lits |-> lits]

\* return e; from parse, *lp being ln: back in main at line 723
ParseReturn(e, ln) ==
    /\ mainLoc' = [mainLoc EXCEPT !.err = e, !.lineno = ln]
    /\ pc' = "parsed"

\* an int overflow that traps: abort, whose signal catchsig answers with
\* c s UNKNOWN before the process ends by the signal
Trap ==
    /\ pc' = "aborted"
    /\ stdout' = Append(stdout, Line("c", "s UNKNOWN", << >>))
    /\ UNCHANGED <<inp, parseLoc, mainLoc, lgl, stderr>>

\* isoptchar (ch)
isoptchar(ch) ==
    ch \in {"a", "b", "c", "d", "e", "f", "g", "h", "i", "j", "k", "l", "m",
            "n", "o", "p", "q", "r", "s", "t", "u", "v", "w", "x", "y", "z",
            "A", "B", "C", "D", "E", "F", "G", "H", "I", "J", "K", "L", "M",
            "N", "O", "P", "Q", "R", "S", "T", "U", "V", "W", "X", "Y", "Z",
            "-", "_"} \cup Range(DigitChars)

\* the first index from i on of a character that is no option character
RECURSIVE NameEnd(_, _)
NameEnd(chars, i) == IF isoptchar(chars[i]) THEN NameEnd(chars, i + 1) ELSE i

\* the first index from i on of a character that is no digit
RECURSIVE DigitsEnd(_, _)
DigitsEnd(chars, i) == IF isdigit(chars[i]) THEN DigitsEnd(chars, i + 1) ELSE i

\* lines 137-174, the loop over a comment line met before the header:
\* chars are the characters after the 'c', the new line or the end of the
\* file last, and ch = chars[i]; st holds the engine, verbose, the error
\* parse returns, and whether a value left the range of int
RECURSIVE ScanComment(_, _, _)
ScanComment(chars, i, st) ==
    IF chars[i] = "\n" THEN st
    ELSE IF chars[i] = "EOF"
    THEN [st EXCEPT !.err = "end of file in comment"]
    ELSE IF chars[i] # "-" \/ chars[i + 1] # "-"
    THEN ScanComment(chars, i + 1, st)
    ELSE LET j == NameEnd(chars, i + 2)
             name == SubSeq(chars, i + 2, j - 1)
             neg == chars[j + 1] = "-"
             k == IF neg THEN j + 2 ELSE j + 1
             r == ReadNumber(chars, k)
             val == Wrap(r.val * (IF neg THEN -1 ELSE 1))
         IN  IF chars[j] # "=" THEN ScanComment(chars, j, st)
             ELSE IF ~isdigit(chars[k]) THEN ScanComment(chars, k, st)
             ELSE IF ~lglhasopt(st.lgl, name)
             THEN ScanComment(chars, DigitsEnd(chars, k),
                              [st EXCEPT !.ovf = @ \/ r.ovf])
             ELSE ScanComment(chars, DigitsEnd(chars, k),
                              [st EXCEPT
                                 !.verbose = IF name = Verbose THEN val ELSE @,
                                 !.lgl = lglsetopt(@, name, val),
                                 !.ovf = @ \/ r.ovf])

\* the comment lines pre[i], pre[i + 1], ... met at SKIP, up to the first
\* that ends the file
RECURSIVE ScanComments(_, _, _)
ScanComments(pre, i, st) ==
    IF i > Len(pre) \/ st.err # "" THEN st
    ELSE ScanComments(pre, i + 1,
                      [ScanComment(pre[i], 1, st) EXCEPT
                         !.lineno = IF pre[i][Len(pre[i])] = "\n"
                                    THEN @ + 1 ELSE @])

\* parse from SKIP to the first character that starts no comment line
parseSkip ==
    /\ pc = "SKIP"
    /\ LET st == ScanComments(inp.file.pre, 1,
                              [lgl |-> lgl, verbose |-> verbose, err |-> "",
                               ovf |-> FALSE, lineno |-> mainLoc.lineno])
       IN  \/ /\ lgl' = st.lgl
              /\ verbose' = st.verbose
              /\ IF st.err # "" THEN ParseReturn(st.err, st.lineno)
                 ELSE /\ pc' = "HEADER"
                      /\ mainLoc' = [mainLoc EXCEPT !.lineno = st.lineno]
              /\ UNCHANGED <<stdout>>
           \/ /\ st.ovf
              /\ Trap
              /\ UNCHANGED verbose
    /\ UNCHANGED <<vars, natvars, glucvars, ignmissingheader, ignaddcls, timelimit, caughtalarm,
                   alrm, inp, parseLoc, stderr>>

\* parse from the first character after the comments to the end of the
\* header line
parseHeader ==
    /\ pc = "HEADER"
    /\ UNCHANGED <<vars, natvars, glucvars, ignmissingheader, ignaddcls, verbose, timelimit,
                   caughtalarm, alrm>>
    /\ LET f == inp.file
           m == ReadNumber(f.m, 1)
           n == ReadNumber(f.n, 1)
       IN  IF ignmissingheader # 0
           THEN /\ pc' = "BODY"
                /\ mainLoc' = [mainLoc EXCEPT
                                 !.lineno = IF f.p THEN @ + 1 ELSE @]
                /\ UNCHANGED <<inp, parseLoc, lgl, stdout, stderr>>
           ELSE IF ~f.p
           THEN /\ ParseReturn("missing 'p ...' header", mainLoc.lineno)
                /\ UNCHANGED <<inp, parseLoc, lgl, stdout, stderr>>
           ELSE IF f.fmt # "cnf"
           THEN /\ ParseReturn("invalid header: expected 'c' after ' '",
                               mainLoc.lineno)
                /\ UNCHANGED <<inp, parseLoc, lgl, stdout, stderr>>
           ELSE \/ /\ pc' = "BODY"
                   /\ parseLoc' = [parseLoc EXCEPT !.header = 1,
                                                   !.m = m.val, !.n = n.val]
                   /\ mainLoc' = [mainLoc EXCEPT !.lineno = @ + 1]
                   /\ UNCHANGED <<inp, lgl, stdout, stderr>>
                \/ (m.ovf \/ n.ovf) /\ Trap

\* the end of the file is reached at BODY
AtEOF ==
    /\ IF parseLoc.header # 0 /\ parseLoc.c + 1 = parseLoc.n
       THEN ParseReturn("clause missing", mainLoc.lineno)
       ELSE IF parseLoc.header # 0 /\ parseLoc.c < parseLoc.n
       THEN ParseReturn("clauses missing", mainLoc.lineno)
       ELSE ParseReturn("", mainLoc.lineno)
    /\ UNCHANGED <<inp, parseLoc, lgl, stdout, stderr>>

\* an 'o' is read at BODY
Section ==
    IF parseLoc.section # 0
    THEN /\ ParseReturn("two section headers in a row", mainLoc.lineno)
         /\ UNCHANGED <<inp, parseLoc, lgl, stdout, stderr>>
    ELSE /\ parseLoc' = [parseLoc EXCEPT !.section = 1]
         /\ inp' = [inp EXCEPT !.pos = @ + 1]
         /\ UNCHANGED <<pc, mainLoc, lgl, stdout, stderr>>

\* Number without lit *= sign: the literal reaches the engine unsigned
Number_unsigned(lit, sign, ln) ==
    IF parseLoc.header # 0 /\ lit > parseLoc.m
    THEN /\ ParseReturn("maxium variable index exceeded", ln)
         /\ UNCHANGED <<inp, parseLoc, lgl, stdout, stderr>>
    ELSE LET c == IF lit = 0 THEN parseLoc.c + 1 ELSE parseLoc.c
         IN  /\ parseLoc' = [parseLoc EXCEPT
                               !.v = IF lit > @ THEN lit ELSE @,
                               !.l = IF lit # 0 THEN @ + 1 ELSE @,
                               !.c = c,
                               !.section = 0]
             /\ lgl' = IF parseLoc.section # 0
                       THEN lglsetimportant(lgl, lit)
                       ELSE lgladd(lgl, lit)
             /\ inp' = [inp EXCEPT !.pos = @ + 1]
             /\ IF /\ parseLoc.section = 0
                   /\ lit = 0
                   /\ ignaddcls # 0
                   /\ c = parseLoc.n
                THEN ParseReturn("", ln)
                ELSE /\ pc' = "BODY"
                     /\ mainLoc' = [mainLoc EXCEPT !.lineno = ln]
             /\ UNCHANGED <<stdout, stderr>>

\* lines 255-268: the number lit has been read, sign is that of the token,
\* ln the line number after the character behind the number was read
Number(lit, sign, ln) ==
    IF parseLoc.header # 0 /\ lit > parseLoc.m
    THEN /\ ParseReturn("maxium variable index exceeded", ln)
         /\ UNCHANGED <<inp, parseLoc, lgl, stdout, stderr>>
    ELSE LET c == IF lit = 0 THEN parseLoc.c + 1 ELSE parseLoc.c
             signed == Wrap(lit * sign)
         IN  /\ parseLoc' = [parseLoc EXCEPT
                               !.v = IF lit > @ THEN lit ELSE @,
                               !.l = IF lit # 0 THEN @ + 1 ELSE @,
                               !.c = c,
                               !.section = 0]
             /\ lgl' = IF parseLoc.section # 0
                       THEN lglsetimportant(lgl, signed)
                       ELSE lgladd(lgl, signed)
             /\ inp' = [inp EXCEPT !.pos = @ + 1]
             /\ IF /\ parseLoc.section = 0
                   /\ signed = 0
                   /\ ignaddcls # 0
                   /\ c = parseLoc.n
                THEN ParseReturn("", ln)
                ELSE /\ pc' = "BODY"
                     /\ mainLoc' = [mainLoc EXCEPT !.lineno = ln]
             /\ UNCHANGED <<stdout, stderr>>

\* lines 245-254: a token that is not 'o' is read at BODY
Literal(tok) ==
    LET neg == tok[1] = "-"
        i == IF neg THEN 2 ELSE 1
        ch == IF i <= Len(tok) THEN tok[i] ELSE Sep(tok)
        r == ReadNumber(tok, i)
        ln == mainLoc.lineno + (IF Sep(tok) = "\n" THEN 1 ELSE 0)
    IN  IF neg /\ ch = "0"
        THEN /\ ParseReturn("expected positive digit after '-'", mainLoc.lineno)
             /\ UNCHANGED <<inp, parseLoc, lgl, stdout, stderr>>
        ELSE IF ~isdigit(ch)
        THEN /\ ParseReturn("expected digit", mainLoc.lineno)
             /\ UNCHANGED <<inp, parseLoc, lgl, stdout, stderr>>
        ELSE IF /\ parseLoc.header # 0
                /\ parseLoc.section = 0
                /\ parseLoc.c = parseLoc.n
        THEN /\ ParseReturn("too many clauses", mainLoc.lineno)
             /\ UNCHANGED <<inp, parseLoc, lgl, stdout, stderr>>
        ELSE \/ Number(r.val, IF neg THEN -1 ELSE 1, ln)
             \/ r.ovf /\ Trap

\* lines 224-228: a 'c' is read at BODY and the line is skipped
Comment(tok) ==
    /\ IF tok[Len(tok)] = "EOF"
       THEN ParseReturn("end of file in comment", mainLoc.lineno)
       ELSE /\ pc' = "BODY"
            /\ mainLoc' = [mainLoc EXCEPT !.lineno = @ + 1]
    /\ inp' = [inp EXCEPT !.pos = @ + 1]
    /\ UNCHANGED <<parseLoc, lgl, stdout, stderr>>

\* parse, one pass from BODY to the next goto BODY or to a return
parseBody ==
    /\ pc = "BODY"
    /\ UNCHANGED <<vars, natvars, glucvars, ignmissingheader, ignaddcls, verbose, timelimit,
                   caughtalarm, alrm>>
    /\ IF inp.pos > Len(inp.file.body) THEN AtEOF
       ELSE IF inp.file.body[inp.pos][1] = "c"
       THEN Comment(inp.file.body[inp.pos])
       ELSE IF inp.file.body[inp.pos][1] = "o" THEN Section
       ELSE Literal(inp.file.body[inp.pos])

(***************************************************************************)
(* main after parse.                                                       *)
(***************************************************************************)
\* the name of the input: iname = "<stdin>" when no file is named
Iname == "<stdin>"

\* fprintf (stderr, "%s:%d: %s\n", iname, lineno, err)
ErrorLine(iname, lineno, err) == <<iname, ":", lineno, ": ", err>>

\* strlen of sprintf (str, " %d", i)
StrLen(i) ==
    1 + Len(Decimal(variableOf(i))) + (IF i < 0 THEN 1 ELSE 0)

\* flushobuf: the line the buffer holds, after "c " when simponly
flushobuf(obuf, simponly) ==
    IF simponly # 0 THEN Line("c", "v", obuf.lits)
    ELSE Line("v", "", obuf.lits)

\* print2obuf for the numbers lits[i], lits[i + 1], ... and the last
\* flushobuf: obuf holds the numbers of the line being filled and pos, the
\* characters they take; the lines are returned
RECURSIVE Print2obuf(_, _, _, _)
Print2obuf(lits, i, obuf, simponly) ==
    IF i > Len(lits)
    THEN IF obuf.pos > 0 THEN <<flushobuf(obuf, simponly)>> ELSE << >>
    ELSE IF obuf.pos + StrLen(lits[i]) > 79
    THEN <<flushobuf(obuf, simponly)>>
           \o Print2obuf(lits, i + 1,
                         [lits |-> <<lits[i]>>, pos |-> StrLen(lits[i])],
                         simponly)
    ELSE Print2obuf(lits, i + 1,
                    [lits |-> Append(obuf.lits, lits[i]),
                     pos |-> obuf.pos + StrLen(lits[i])],
                    simponly)

\* main with the goto DONE after a failed parse removed: the message is
\* written and main goes on to lglsat
mainParseError_noGoto ==
    /\ pc = "parsed"
    /\ mainLoc.err # ""
    /\ stderr' = Append(stderr, ErrorLine(Iname, mainLoc.lineno, mainLoc.err))
    /\ lgl' = [lgl EXCEPT !.nsat = @ + 1]
    /\ mainLoc' = [mainLoc EXCEPT !.res = 20]
    /\ pc' = "solved"
    /\ UNCHANGED <<vars, natvars, glucvars, ignmissingheader, ignaddcls, verbose, timelimit,
                   caughtalarm, alrm, inp, parseLoc, stdout>>

\* main, lines 723-727 and DONE: parse returned an error
mainParseError ==
    /\ pc = "parsed"
    /\ mainLoc.err # ""
    /\ stderr' = Append(stderr, ErrorLine(Iname, mainLoc.lineno, mainLoc.err))
    /\ mainLoc' = [mainLoc EXCEPT !.res = 1]
    /\ pc' = "exit"
    /\ UNCHANGED <<vars, natvars, glucvars, ignmissingheader, ignaddcls, verbose, timelimit,
                   caughtalarm, alrm, inp, parseLoc, lgl, stdout>>

\* main, lines 728-744: parse returned 0; with a time limit the engine is
\* given checkalarm, SIGALRM is given catchalrm and alarm (timelimit) is
\* called, which arms no alarm when timelimit is 0
mainArm ==
    /\ pc = "parsed"
    /\ mainLoc.err = ""
    /\ IF timelimit >= 0
       THEN /\ lgl' = lglseterm(lgl)
            /\ alrm' = [handler |-> "catchalrm", armed |-> timelimit > 0]
       ELSE UNCHANGED <<lgl, alrm>>
    /\ pc' = "lglsat"
    /\ UNCHANGED <<vars, natvars, glucvars, ignmissingheader, ignaddcls, verbose, timelimit,
                   caughtalarm, inp, parseLoc, mainLoc, stdout, stderr>>

\* checkalarm
checkalarm == caughtalarm

\* the pending alarm expires and SIGALRM is delivered: catchalrm runs if it
\* is installed, and by default the signal ends the process
SIGALRM ==
    /\ pc \in {"lglsat", "solved"}
    /\ alrm.armed
    /\ alrm' = [alrm EXCEPT !.armed = FALSE]
    /\ IF alrm.handler = "catchalrm"
       THEN /\ caughtalarm' = 1
            /\ UNCHANGED pc
       ELSE /\ pc' = "killed"
            /\ UNCHANGED caughtalarm
    /\ UNCHANGED <<vars, natvars, glucvars, ignmissingheader, ignaddcls, verbose, timelimit,
                   inp, parseLoc, mainLoc, lgl, stdout, stderr>>

\* main, lines 757-761: res = lglsat (lgl), 10 with a model the engine
\* keeps, 20 without, 0 when the termination callback told it to stop;
\* then caughtalarm is cleared and SIGALRM gets its former handler back
mainSolve ==
    /\ pc = "lglsat"
    /\ \/ IF Models(lgl) = {}
          THEN /\ lgl' = [lgl EXCEPT !.nsat = @ + 1]
               /\ mainLoc' = [mainLoc EXCEPT !.res = 20]
          ELSE \E T \in Models(lgl) :
                 /\ lgl' = [lgl EXCEPT !.nsat = @ + 1, !.vals = T]
                 /\ mainLoc' = [mainLoc EXCEPT !.res = 10]
       \/ /\ lgl.term
          /\ checkalarm # 0
          /\ lgl' = [lgl EXCEPT !.nsat = @ + 1]
          /\ mainLoc' = [mainLoc EXCEPT !.res = 0]
    /\ IF timelimit >= 0
       THEN /\ caughtalarm' = 0
            /\ alrm' = [alrm EXCEPT !.handler = "SIG_DFL"]
       ELSE UNCHANGED <<caughtalarm, alrm>>
    /\ pc' = "solved"
    /\ UNCHANGED <<vars, natvars, glucvars, ignmissingheader, ignaddcls, verbose, timelimit,
                   inp, parseLoc, stdout, stderr>>

\* lines 783-786: the status line for res, after "c " when simponly
StatusLine(simponly, res) ==
    IF simponly # 0
    THEN Line("c", IF res = 10 THEN "s SATISFIABLE"
                   ELSE IF res = 20 THEN "s UNSATISFIABLE"
                   ELSE "c s UNKNOWN", << >>)
    ELSE IF res = 10 THEN Line("s", "SATISFIABLE", << >>)
    ELSE IF res = 20 THEN Line("s", "UNSATISFIABLE", << >>)
    ELSE Line("c", "s UNKNOWN", << >>)

\* main, lines 782-811: the s line, the v lines of a model, return res
mainReport ==
    /\ pc = "solved"
    /\ LET maxvar == lglmaxvar(lgl)
           lits == [i \in 1..(maxvar + 1) |->
                      IF i <= maxvar THEN Deref(lgl, i) ELSE 0]
       IN  stdout' =
             IF mainLoc.simponly # 0 /\ verbose < 0 THEN stdout
             ELSE IF mainLoc.res = 10 /\ lglgetopt(lgl, Witness) # 0
             THEN Append(stdout, StatusLine(mainLoc.simponly, mainLoc.res))
                    \o Print2obuf(lits, 1, [lits |-> << >>, pos |-> 0],
                                  mainLoc.simponly)
             ELSE Append(stdout, StatusLine(mainLoc.simponly, mainLoc.res))
    /\ pc' = "exit"
    /\ UNCHANGED <<vars, natvars, glucvars, ignmissingheader, ignaddcls, verbose, timelimit,
                   caughtalarm, alrm, inp, parseLoc, mainLoc, lgl, stderr>>

NextLgl ==
    \/ parseSkip
    \/ parseHeader
    \/ parseBody
    \/ mainParseError
    \/ mainArm
    \/ mainSolve
    \/ mainReport

SpecLgl == InitLgl /\ [][NextLgl]_allvars

(***************************************************************************)
(* Runs of the driver with its options: -s, -q, -n, -T <seconds>, and      *)
(* input files with comment lines.                                         *)
(***************************************************************************)
\* c --witness=0
DirWitness == <<" ", "-", "-">> \o Witness \o <<"=", "0", "\n">>
\* c --verbose=-1
DirVerbose == <<" ", "-", "-">> \o Verbose \o <<"=", "-", "1", "\n">>
\* c --x=1, no option of the engine
DirOther == <<" ", "-", "-", "x", "=", "1", "\n">>
\* a comment that the end of the file cuts
CutComment == <<" ", "x", "EOF">>

\* the file f after the comment lines pre
WithComments(pre, f) == [f EXCEPT !.pre = pre]
\* the file f with the comment line chars as the first line of its body
WithBodyComment(chars, f) == [f EXCEPT !.body = <<(<<"c">> \o chars)>> \o @]

\* p cnf 1 2 / 1 0 / -1 0
Contradiction ==
    DimacsFile(TRUE, "cnf", <<"1">>, <<"2">>,
               << <<"1">>, <<"0">>, <<"-", "1">>, <<"0">> >>)

\* p cnf INT_MAX 1 / lit 0, lit the largest variable or its negation
Wide(sign) ==
    DimacsFile(TRUE, "cnf", Decimal(INT_MAX), <<"1">>,
               <<sign \o Decimal(INT_MAX), <<"0">> >>)

DrvFiles ==
    {ScenarioC, Contradiction, Wide(<< >>), Wide(<<"-">>),
     WithComments(<<DirWitness>>, ScenarioC),
     WithComments(<<DirOther, DirVerbose>>, ScenarioC),
     WithComments(<<CutComment>>, ScenarioC),
     WithBodyComment(DirWitness, ScenarioC),
     WithBodyComment(CutComment, ScenarioC)}

\* the arguments of -T: lines 488-495 accept a string of digits
TimeArgs == {<<"0">>, <<"1">>}
\* atoi (argv[i])
atoi(chars) == ReadNumber(chars, 1).val

InitDrv ==
    /\ InitHandle
    /\ ignmissingheader = 0
    /\ ignaddcls = 0
    /\ \E f \in DrvFiles, s \in {0, 1}, q \in {-1, 0}, w \in {0, 1},
          t \in {-1} \cup {atoi(a) : a \in TimeArgs} :
          mainEnter(f, s,
                    lglsetopt(lglsetopt(lglinit, Verbose, q), Witness, w), t)
    /\ NatOff
    /\ GlucOff

NextDrv ==
    \/ NextLgl
    \/ SIGALRM

SpecDrv == InitDrv /\ [][NextDrv]_allvars

(***************************************************************************)
(* Properties of the lingeling driver.                                     *)
(***************************************************************************)
\* the signed integers of the body of file f, as written, in input order
Written(f) == [i \in 1..Len(f.body) |-> TokenValue(f.body[i])]

\* a header p cnf m n and a body of exactly n zero-terminated clauses over
\* the variables 1 .. m
WellFormed(f) ==
    /\ f.p
    /\ f.fmt = "cnf"
    /\ \A i \in 1..Len(f.body) :
          /\ f.body[i][1] # "o"
          /\ f.body[i] # <<"-", "0">>
          /\ variableOf(TokenValue(f.body[i])) <= Denoted(f.m, Len(f.m))
    /\ Len(f.body) > 0 => f.body[Len(f.body)] = <<"0">>
    /\ Cardinality({i \in 1..Len(f.body) : f.body[i] = <<"0">>})
         = Denoted(f.n, Len(f.n))

\* parse has returned
ParseDone == pc \in {"parsed", "lglsat", "solved", "exit"}

\* C16: on a well-formed input parse succeeds and the engine has received
\* through lgladd exactly the signed integers of the body, in input order,
\* every clause closed by its 0, also while parse is under way; for
\* Scenario C the engine holds the clauses (1,-2) and (-1,2), whose models
\* are those with x1 = x2.
C16_WellFormedParsed ==
    /\ (WellFormed(inp.file) /\ pc = "BODY")
         => lgl.added = SubSeq(Written(inp.file), 1, inp.pos - 1)
    /\ (WellFormed(inp.file) /\ ParseDone)
         => /\ mainLoc.err = ""
            /\ lgl.added = Written(inp.file)
            /\ lgl.important = << >>
    /\ (inp.file = ScenarioC /\ ParseDone)
         => /\ ClausesOf(lgl.added, 1, {}) = {{1, -2}, {-1, 2}}
            /\ Models(lgl) = {{}, {1, 2}}

\* Scenario C was parsed, solved and reported with x1 and x2 both true
C16_Witness ==
    /\ inp.file = ScenarioC
    /\ ignmissingheader = 0
    /\ ignaddcls = 0
    /\ pc = "exit"
    /\ mainLoc.res = 10
    /\ lgl.added = <<1, -2, 0, -1, 2, 0>>
    /\ lgl.vals = {1, 2}
    /\ Len(stdout) = 2

\* the number of zero-terminated clauses handed to the engine
ClausesHanded == Cardinality({i \in 1..Len(lgl.added) : lgl.added[i] = 0})

\* C17 as claimed: with a header p cnf m n and neither --force nor --ignore
\* set, parse returns success only if exactly n zero-terminated clauses were
\* handed to the engine.
C17_ClauseCountChecked ==
    (/\ ignmissingheader = 0
     /\ ignaddcls = 0
     /\ parseLoc.header # 0
     /\ ParseDone
     /\ mainLoc.err = "")
        => ClausesHanded = parseLoc.n

\* C18 as claimed: with a header p cnf m n, parse succeeds only if no
\* literal it read has a variable index above m, whatever its digit string,
\* so that every literal passed to the engine (lgladd, lglsetimportant) has
\* magnitude at most m.
C18_MaxVarChecked ==
    (parseLoc.header # 0 /\ ParseDone /\ mainLoc.err = "")
        => /\ \A i \in 1..(inp.pos - 1) :
                inp.file.body[i][1] # "o"
                  => variableOf(TokenValue(inp.file.body[i])) <= parseLoc.m
           /\ \A i \in 1..Len(lgl.added) :
                variableOf(lgl.added[i]) <= parseLoc.m
           /\ \A i \in 1..Len(lgl.important) :
                variableOf(lgl.important[i]) <= parseLoc.m

\* C19 as claimed: when parse returns an error, lgladd has not been called
\* for any literal of the rejected file.
C19_NoPartialFormula ==
    (ParseDone /\ mainLoc.err # "") => lgl.added = << >>

\* C20: malformed input fails fast: once parse has returned an error, the
\* engine is never asked to solve and no s or v line is printed, and the
\* driver ends having written the one line <file>:<line>: <message> to
\* stderr, with exit status 1.
C20_FailFast ==
    /\ mainLoc.err # ""
         => /\ lgl.nsat = 0
            /\ \A i \in 1..Len(stdout) : stdout[i].tag \notin {"s", "v"}
    /\ (mainLoc.err # "" /\ pc = "exit")
         => /\ stderr = <<ErrorLine(Iname, mainLoc.lineno, mainLoc.err)>>
            /\ mainLoc.res = 1

\* the driver ended on a parse error that came after a literal had been
\* handed to the engine
C20_Witness ==
    /\ pc = "exit"
    /\ mainLoc.err = "maxium variable index exceeded"
    /\ lgl.added = <<1>>
    /\ mainLoc.res = 1
    /\ Len(stderr) = 1

(***************************************************************************)
(* Properties of the driver's output and of its time limit.                *)
(***************************************************************************)
\* parse returned 0, lglsat returned and main has written its report
Reported == pc = "exit" /\ mainLoc.err = ""

\* the status line of the output format for the result res
ExpectedStatus(res) ==
    IF res = 10 THEN Line("s", "SATISFIABLE", << >>)
    ELSE IF res = 20 THEN Line("s", "UNSATISFIABLE", << >>)
    ELSE Line("s", "UNKNOWN", << >>)

\* the lines of the output that begin with the word tag
LinesOf(tag) == SelectSeq(stdout, LAMBDA ln : ln.tag = tag)

\* C21: after a successful parse and solve the output holds exactly one
\* status line: s SATISFIABLE when lglsat returned 10, s UNSATISFIABLE when
\* it returned 20, s UNKNOWN for every other result
C21_OneStatusLine ==
    Reported => LinesOf("s") = <<ExpectedStatus(mainLoc.res)>>

\* the lines flushobuf wrote: v lines, behind "c " when simponly
WitnessLines ==
    SelectSeq(stdout, LAMBDA ln : ln.tag = "v" \/ (ln.tag = "c" /\ ln.text = "v"))

\* the numbers of the lines ls, in the order of the output
RECURSIVE Numbers(_)
Numbers(ls) == IF ls = << >> THEN << >> ELSE Head(ls).lits \o Numbers(Tail(ls))

\* the characters the numbers lits take, each after a blank
RECURSIVE Width(_)
Width(lits) == IF lits = << >> THEN 0 ELSE StrLen(Head(lits)) + Width(Tail(lits))

\* the columns of a line flushobuf wrote, its new line not counted
Columns(ln) == (IF ln.tag = "c" THEN 3 ELSE 1) + Width(ln.lits)

\* the report was written for a satisfiable input with the witness asked for
WitnessPrinted ==
    /\ Reported
    /\ mainLoc.res = 10
    /\ lglgetopt(lgl, Witness) # 0
    /\ ~(mainLoc.simponly # 0 /\ verbose < 0)

\* C22: when the result is SATISFIABLE and the witness is printed, the
\* witness lines hold for every variable 1 .. maxvar, in increasing order,
\* exactly one of i and -i, then exactly one 0, and no witness line is
\* longer than 80 columns
C22_WitnessLines ==
    WitnessPrinted =>
        LET nums == Numbers(WitnessLines)
            maxvar == lglmaxvar(lgl)
        IN  /\ Len(nums) = maxvar + 1
            /\ \A i \in 1..maxvar : nums[i] \in {i, -i}
            /\ nums[maxvar + 1] = 0
            /\ \A k \in 1..Len(WitnessLines) : Columns(WitnessLines[k]) <= 80

\* C23: a time limit makes the engine stop instead of crashing or running
\* past the deadline: while lglsat runs under a time limit the engine holds
\* checkalarm, the alarm is pending or was caught, what was caught stays
\* reported by checkalarm until lglsat returns, and the delivery of the
\* alarm never ends the process by the signal
C23_TimeLimit ==
    /\ (pc = "lglsat" /\ timelimit >= 0) =>
           /\ lgl.term
           /\ alrm.handler = "catchalrm"
           /\ alrm.armed \/ checkalarm # 0
    /\ pc # "killed"

(***************************************************************************)
(* Properties of the comment lines and of the o lines of the input.        *)
(***************************************************************************)
\* the comment lines of file f, without their 'c', in input order
CommentsOf(f) ==
    f.pre \o [k \in 1..Len(SelectSeq(f.body, LAMBDA tok : tok[1] = "c")) |->
                Tail(SelectSeq(f.body, LAMBDA tok : tok[1] = "c")[k])]

\* the comment line chars is c --name=value, name an option of the engine
IsDirective(chars) ==
    /\ Len(chars) > 5
    /\ SubSeq(chars, 1, 3) = <<" ", "-", "-">>
    /\ \E i \in 5..(Len(chars) - 2) :
         /\ chars[i] = "="
         /\ lglhasopt(lglinit, SubSeq(chars, 4, i - 1))
\* the name and the value of such a line
DirName(chars) ==
    SubSeq(chars, 4, (CHOOSE i \in 5..Len(chars) : chars[i] = "=") - 1)
DirValue(chars) ==
    TokenValue(SubSeq(chars, (CHOOSE i \in 5..Len(chars) : chars[i] = "=") + 1,
                      Len(chars) - 1))

\* C24: when parse has returned 0, every directive --name=value of a
\* comment line of the input, before or after the header, has been applied:
\* the engine holds that value for the option
C24_DirectivesApplied ==
    (ParseDone /\ mainLoc.err = "") =>
        \A k \in 1..Len(CommentsOf(inp.file)) :
            IsDirective(CommentsOf(inp.file)[k]) =>
                lglgetopt(lgl, DirName(CommentsOf(inp.file)[k]))
                    = DirValue(CommentsOf(inp.file)[k])

\* token i of body stands on an o line: an 'o' precedes it with no end of
\* line in between (a line ends behind a 0)
OnOLine(body, i) ==
    \E j \in 1..(i - 1) :
        /\ body[j] = <<"o">>
        /\ \A k \in (j + 1)..(i - 1) : body[k] # <<"0">>

\* the numbers among the first k tokens of body that stand on an o line
\* (on = TRUE) or on no o line (on = FALSE), in input order
RECURSIVE NumbersRead(_, _, _)
NumbersRead(body, k, on) ==
    IF k = 0 THEN << >>
    ELSE IF body[k][1] \notin {"o", "c"} /\ OnOLine(body, k) = on
    THEN Append(NumbersRead(body, k - 1, on), TokenValue(body[k]))
    ELSE NumbersRead(body, k - 1, on)

\* every number of the body fits an int
FitsInt(f) == \A i \in 1..Len(f.body) : f.body[i] # BigToken

\* C25: of the tokens parse has read, every literal that follows an 'o' on
\* its line has gone to lglsetimportant and no other, every other number
\* has gone to lgladd, and only the 0s outside o lines were counted as
\* clauses
C25_ImportantLine ==
    ((pc = "BODY" \/ ParseDone) /\ FitsInt(inp.file)) =>
        LET body == inp.file.body
            k == inp.pos - 1
        IN  /\ lgl.important = NumbersRead(body, k, TRUE)
            /\ lgl.added = NumbersRead(body, k, FALSE)
            /\ parseLoc.c = Len(SelectSeq(NumbersRead(body, k, FALSE),
                                          LAMBDA x : x = 0))

(***************************************************************************)
(* jdrasil.sat.NativeSATSolver: the native methods of one solver object    *)
(* over the IPASIR functions of ipasirsolver.c.  One thread uses the       *)
(* object (add, assume, solve, val, failed, one call after the other);     *)
(* terminate may be called by another thread at any time.                  *)
(***************************************************************************)
\* literals given to ipasir_add per run
MaxAdded == 3

\* the literals add, assume, and val and failed are called with
AddLits == {-1, 0, 1}
AssumeLits == {-1, 2}
AskLits == {-1, 1, 2}

\* ipasir_init (): lglinit () or picosat_init (); nothing added, nothing
\* assumed, no variable has a value, no termination callback; log is the
\* calls ipasir_add has made on the engine, in their order
ipasir_init ==
    [added |-> << >>, log |-> << >>, assumed |-> {}, assigned |-> {},
     vals |-> {}, failed |-> {}, term |-> FALSE, tick |-> 0]

\* ipasir_add (instance, literal) that freezes the literal as it is given
\* only
ipasir_add_onePolarity(b, e, literal) ==
    [e EXCEPT !.added = Append(@, literal),
              !.log = IF b = "Lingeling"
                      THEN @ \o (IF literal # 0
                                 THEN <<<<"lglfreeze", literal>>>>
                                 ELSE << >>)
                             \o <<<<"lgladd", literal>>>>
                      ELSE Append(@, <<"picosat_add", literal>>)]

\* ipasir_add (instance, literal) of the backend b
ipasir_add(b, e, literal) ==
    [e EXCEPT !.added = Append(@, literal),
              !.log = IF b = "Lingeling"
                      THEN @ \o (IF literal # 0
                                 THEN <<<<"lglfreeze", literal>>,
                                        <<"lglfreeze", -1 * literal>>>>
                                 ELSE << >>)
                             \o <<<<"lgladd", literal>>>>
                      ELSE Append(@, <<"picosat_add", literal>>)]

\* ipasir_assume (instance, literal)
ipasir_assume(e, literal) == [e EXCEPT !.assumed = @ \cup {literal}]

\* ipasir_set_terminate (instance, state, terminate)
ipasir_set_terminate(e) == [e EXCEPT !.term = TRUE]

\* the clauses a solve call decides: the clauses added, and each assumption
\* as a unit clause
SolveClauses(e) == ClausesOf(e.added, 1, {}) \cup {{a} : a \in e.assumed}

\* the results lglderef / picosat_deref may give for literal: 1 or -1 for a
\* variable the model found assigns, and for any other variable whatever
\* the engine returns
DerefResults(e, literal) ==
    IF variableOf(literal) \in e.assigned
    THEN {IF (literal > 0) = (variableOf(literal) \in e.vals) THEN 1 ELSE -1}
    ELSE {-1, 0, 1}

\* ipasir_val of the backend b, val being what the engine's deref returned
ipasir_val(b, val, literal) ==
    IF b = "Lingeling"
    THEN IF val < 0 THEN -1 * literal ELSE literal
    ELSE IF val = 0 THEN 0
    ELSE IF val < 0 THEN -1 * literal ELSE literal

\* ipasir_failed of the backend b, val being what lglfailed or
\* picosat_failed_assumption returned
ipasir_failed(b, val) ==
    IF b = "Lingeling"
    THEN IF val < 0 THEN 0 ELSE 1
    ELSE IF val # 0 THEN 1 ELSE 0

\* a native call that has returned: its name, its argument and the value
\* it returned
Call(op, arg, val) == [op |-> op, arg |-> arg, val |-> val, done |-> TRUE]
\* a native call that has been entered and has not returned
Entered(op) == [op |-> op, arg |-> 0, val |-> 0, done |-> FALSE]

\* Java_jdrasil_sat_NativeSATSolver_init has returned
InitNat ==
    /\ InitHandle
    /\ NotStarted
    /\ GlucOff
    /\ backend \in {"Lingeling", "PicoSAT"}
    /\ isTerminated = 0
    /\ currentState = "INPUT"
    /\ instance = ipasir_init
    /\ solveLoc = [pc |-> "idle", result |-> 0]
    /\ jcall = Call("init", 0, 0)

\* terminationCallback (instance)
terminationCallback == isTerminated

\* setSolverState for the result of ipasir_solve (lines 115-124)
StateOf(result) ==
    IF result = 10 THEN "SAT" ELSE IF result = 20 THEN "UNSAT" ELSE "INPUT"

\* Java_jdrasil_sat_NativeSATSolver_add
NativeSATSolver_add(literal) ==
    /\ solveLoc.pc = "idle"
    /\ Len(instance.added) < MaxAdded
    /\ instance' = ipasir_add(backend, instance, literal)
    /\ currentState' = "INPUT"
    /\ jcall' = Call("add", literal, 0)
    /\ UNCHANGED <<vars, lglvars, glucvars, backend, isTerminated, solveLoc>>

\* Java_jdrasil_sat_NativeSATSolver_assume
NativeSATSolver_assume(literal) ==
    /\ solveLoc.pc = "idle"
    /\ instance' = ipasir_assume(instance, literal)
    /\ currentState' = "INPUT"
    /\ jcall' = Call("assume", literal, 0)
    /\ UNCHANGED <<vars, lglvars, glucvars, backend, isTerminated, solveLoc>>

\* Java_jdrasil_sat_NativeSATSolver_solve is entered (line 110)
NativeSATSolver_solve ==
    /\ solveLoc.pc = "idle"
    /\ solveLoc' = [pc |-> "entered", result |-> 0]
    /\ jcall' = Entered("solve")
    /\ UNCHANGED <<vars, lglvars, glucvars, backend, isTerminated,
                   currentState, instance>>

\* solve that sets the callback and leaves the flag as it finds it
solve_reset_noclear ==
    /\ solveLoc.pc = "entered"
    /\ instance' = ipasir_set_terminate(instance)
    /\ solveLoc' = [solveLoc EXCEPT !.pc = "ipasir_solve"]
    /\ UNCHANGED <<vars, lglvars, glucvars, backend, isTerminated,
                   currentState, jcall>>

\* solve, lines 111-112: the flag is cleared and the callback is set; then
\* ipasir_solve is called
solve_reset ==
    /\ solveLoc.pc = "entered"
    /\ isTerminated' = 0
    /\ instance' = ipasir_set_terminate(instance)
    /\ solveLoc' = [solveLoc EXCEPT !.pc = "ipasir_solve"]
    /\ UNCHANGED <<vars, lglvars, glucvars, backend, currentState, jcall>>

\* inside ipasir_solve: the search goes on
engineSearch ==
    /\ solveLoc.pc = "ipasir_solve"
    /\ instance' = [instance EXCEPT !.tick = 1 - @]
    /\ UNCHANGED <<vars, lglvars, glucvars, backend, isTerminated,
                   currentState, solveLoc, jcall>>

\* inside ipasir_solve: the engine polls the callback, is told to stop and
\* returns 0
enginePoll ==
    /\ solveLoc.pc = "ipasir_solve"
    /\ instance.term
    /\ terminationCallback # 0
    /\ instance' = [instance EXCEPT !.assumed = {}, !.assigned = {},
                                    !.vals = {}, !.failed = {}]
    /\ solveLoc' = [pc |-> "returned", result |-> 0]
    /\ UNCHANGED <<vars, lglvars, glucvars, backend, isTerminated,
                   currentState, jcall>>

\* the sets of assumptions the engine may report as failed: those with
\* which the clauses added cannot be satisfied
FailedSets(e) ==
    {F \in SUBSET e.assumed :
        LET cls == ClausesOf(e.added, 1, {}) \cup {{a} : a \in F}
        IN  \A T \in SUBSET VarsOf(cls) : ~Satisfies(T, cls)}

\* inside ipasir_solve: the search ends, with 10 and a model or with 20 and
\* the assumptions that failed
engineFinish ==
    /\ solveLoc.pc = "ipasir_solve"
    /\ LET cls == SolveClauses(instance)
           Ts == {T \in SUBSET VarsOf(cls) : Satisfies(T, cls)}
       IN  IF Ts = {}
           THEN /\ \E F \in FailedSets(instance) :
                     instance' = [instance EXCEPT
                                    !.assumed = {}, !.assigned = {},
                                    !.vals = {}, !.failed = F]
                /\ solveLoc' = [pc |-> "returned", result |-> 20]
           ELSE \E T \in Ts :
                  /\ instance' = [instance EXCEPT
                                    !.assumed = {}, !.assigned = VarsOf(cls),
                                    !.vals = T, !.failed = {}]
                  /\ solveLoc' = [pc |-> "returned", result |-> 10]
    /\ UNCHANGED <<vars, lglvars, glucvars, backend, isTerminated,
                   currentState, jcall>>

\* solve with the states of 10 and 20 exchanged
solve_return_swapped ==
    /\ solveLoc.pc = "returned"
    /\ currentState' = StateOf(30 - solveLoc.result)
    /\ jcall' = Call("solve", 0, solveLoc.result)
    /\ solveLoc' = [solveLoc EXCEPT !.pc = "idle"]
    /\ UNCHANGED <<vars, lglvars, glucvars, backend, isTerminated, instance>>

\* solve, lines 115-125: ipasir_solve has returned
solve_return ==
    /\ solveLoc.pc = "returned"
    /\ currentState' = StateOf(solveLoc.result)
    /\ jcall' = Call("solve", 0, solveLoc.result)
    /\ solveLoc' = [solveLoc EXCEPT !.pc = "idle"]
    /\ UNCHANGED <<vars, lglvars, glucvars, backend, isTerminated, instance>>

\* Java_jdrasil_sat_NativeSATSolver_val, called in the state SAT
NativeSATSolver_val(literal) ==
    /\ solveLoc.pc = "idle"
    /\ currentState = "SAT"
    /\ \E val \in DerefResults(instance, literal) :
         jcall' = Call("val", literal, ipasir_val(backend, val, literal))
    /\ UNCHANGED <<vars, lglvars, glucvars, backend, isTerminated,
                   currentState, instance, solveLoc>>

\* Java_jdrasil_sat_NativeSATSolver_failed, called in the state UNSAT
NativeSATSolver_failed(literal) ==
    /\ solveLoc.pc = "idle"
    /\ currentState = "UNSAT"
    /\ jcall' = Call("failed", literal,
                     ipasir_failed(backend,
                                   IF literal \in instance.failed THEN 1 ELSE 0))
    /\ UNCHANGED <<vars, lglvars, glucvars, backend, isTerminated,
                   currentState, instance, solveLoc>>

\* Java_jdrasil_sat_NativeSATSolver_terminate, from any thread
NativeSATSolver_terminate ==
    /\ isTerminated' = 1
    /\ jcall' = Call("terminate", 0, 0)
    /\ UNCHANGED <<vars, lglvars, glucvars, backend, currentState, instance,
                   solveLoc>>

NextNat ==
    \/ \E literal \in AddLits : NativeSATSolver_add(literal)
    \/ \E literal \in AssumeLits : NativeSATSolver_assume(literal)
    \/ NativeSATSolver_solve
    \/ solve_reset
    \/ engineSearch
    \/ enginePoll
    \/ engineFinish
    \/ solve_return
    \/ \E literal \in AskLits : NativeSATSolver_val(literal)
    \/ \E literal \in AskLits : NativeSATSolver_failed(literal)
    \/ NativeSATSolver_terminate

SpecNat == InitNat /\ [][NextNat]_allvars

\* the thread inside solve goes on: the engine keeps searching and keeps
\* polling the callback; how long a search lasts is not bounded, so that
\* nothing obliges it to finish
SpecNatFair ==
    /\ SpecNat
    /\ WF_allvars(solve_reset)
    /\ WF_allvars(engineSearch)
    /\ WF_allvars(enginePoll)
    /\ WF_allvars(solve_return)

(***************************************************************************)
(* Properties of NativeSATSolver.                                          *)
(***************************************************************************)
\* C26: ipasir_val is two-valued: called in the state SAT with a literal l
\* that is not 0, val returns l or -l, in either backend and whatever the
\* engine's deref returns
C26_ValTwoValued ==
    (jcall.op = "val" /\ currentState = "SAT") =>
        jcall.val \in {jcall.arg, -jcall.arg}

\* C27: the state of the Java object follows the calls: init, add and
\* assume leave INPUT, solve leaves SAT for the result 10, UNSAT for 20 and
\* INPUT for any other result, and val, failed, terminate and the steps
\* inside solve leave the state as it is
C27_StateMirrors ==
    [][currentState' =
         IF jcall' = jcall \/ jcall'.op \in {"val", "failed", "terminate"}
            \/ ~jcall'.done
         THEN currentState
         ELSE IF jcall'.op = "solve"
         THEN (IF jcall'.val = 10 THEN "SAT"
               ELSE IF jcall'.val = 20 THEN "UNSAT" ELSE "INPUT")
         ELSE "INPUT"]_natvars

\* a solve that terminate stopped has returned 0 and left the state INPUT
C27_Witness ==
    /\ jcall = Call("solve", 0, 0)
    /\ currentState = "INPUT"
    /\ Len(instance.added) = MaxAdded

\* C30: an interrupted solve is surfaced as UNKNOWN: when terminate is
\* called while solve is running, solve returns in the end, and a solve
\* whose result is neither 10 nor 20 returns that result and leaves the
\* state INPUT
C30_Interrupted ==
    /\ []((jcall.op = "solve" /\ jcall.done /\ jcall.val \notin {10, 20}) =>
              (jcall.val = solveLoc.result /\ currentState = "INPUT"))
    /\ (jcall.op = "terminate" /\ solveLoc.pc # "idle") ~> (solveLoc.pc = "idle")

\* C31: a terminate made while no solve is running has no effect on the
\* next solve: when solve has cleared the flag on entry the callback
\* returns 0, and while ipasir_solve runs the callback returns 1 from a
\* terminate on, and what it returned before on every other step
C31_TerminateBeforeSolve ==
    [][/\ (solveLoc.pc = "entered" /\ solveLoc'.pc = "ipasir_solve") =>
              terminationCallback' = 0
       /\ (solveLoc.pc = "ipasir_solve" /\ solveLoc'.pc = "ipasir_solve") =>
              terminationCallback' =
                  IF NativeSATSolver_terminate THEN 1
                  ELSE terminationCallback]_allvars

\* ipasir_solve is running, terminate was called after solve had cleared
\* the flag, and a poll of the callback returns 1
C31_Witness ==
    /\ solveLoc.pc = "ipasir_solve"
    /\ jcall.op = "terminate"
    /\ terminationCallback = 1

\* C32: a terminate called after solve was invoked is never lost: from a
\* terminate made while solve is between its entry and its return on, a
\* poll of the callback returns nonzero at some time, unless the solve has
\* returned before
C32_NeverLost ==
    (jcall.op = "terminate" /\ solveLoc.pc \in {"entered", "ipasir_solve"})
        ~> \/ solveLoc.pc \in {"returned", "idle"}
           \/ (solveLoc.pc = "ipasir_solve" /\ terminationCallback # 0)

\* C35: ipasir_failed is faithful: failed returns 1 for a literal the
\* engine reports as a failed assumption and 0 for one it reports as not
\* failed, in either backend
C35_FailedFaithful ==
    (jcall.op = "failed") =>
        jcall.val = (IF jcall.arg \in instance.failed THEN 1 ELSE 0)

(***************************************************************************)
(* The Glucose wrappers: ginit, gadd, gsat, gsat_time and gderef of        *)
(* gluc_JGlucose.cpp ("gluc"), glucp_JPGlucose.cpp ("glucp") and           *)
(* glucp/JGlucose.cpp ("JGlucose"), over one solver.                       *)
(***************************************************************************)
\* clauses added per run
MaxClauses == 2
\* the largest time limit given to gsat_time; a solve may take one more
MaxT == 1

\* the clauses gadd is called with
Xs == {<<1>>, <<-1>>, <<1, 2>>, <<-1, -2>>, <<2>>}

\* Glucose::mkLit (v), ~l, var (l), sign (l)
mkLit(v) == 2 * v
NotLit(l) == IF l % 2 = 0 THEN l + 1 ELSE l - 1
var(l) == l \div 2
sign(l) == l % 2 = 1

\* lbool, as toInt gives it: "0 means true and 1 means false"
l_True == 0
l_False == 1
\* lbool ^ bool: the lowest bit of the value is flipped
XorLbool(b, s) ==
    IF ~s THEN b
    ELSE IF b % 2 = 0 THEN b + 1 ELSE b - 1

\* the literal the wrappers make of the int a
LitOf(a) == IF a > 0 THEN mkLit(variableOf(a) - 1)
            ELSE NotLit(mkLit(variableOf(a) - 1))

\* new Glucose::SimpSolver () / new Glucose::MultiSolvers (): no variable,
\* no clause, no model; ub tells that a call has left defined behaviour
NewSolver ==
    [nVars |-> 0, clauses |-> << >>, frozen |-> {}, model |-> << >>,
     took |-> 0, ub |-> FALSE]

\* ginit has returned
InitGluc ==
    /\ InitHandle
    /\ NotStarted
    /\ NatOff
    /\ wrapper \in {"gluc", "glucp", "JGlucose"}
    /\ S = NewSolver
    /\ gcall = Call("ginit", 0, 0)

\* the variables the loop of gadd has made when it ends: gluc and glucp
\* call newVar until the variable of each literal exists, JGlucose calls
\* newVar once per literal
RECURSIVE NVarsAfter(_, _, _, _)
NVarsAfter(w, xs, i, n) ==
    IF i > Len(xs) THEN n
    ELSE IF w = "JGlucose" THEN NVarsAfter(w, xs, i + 1, n + 1)
    ELSE NVarsAfter(w, xs, i + 1,
                    IF variableOf(xs[i]) - 1 >= n THEN variableOf(xs[i]) ELSE n)

\* the assignments of the variables 0 .. n - 1 that satisfy the clauses cls
GlucModels(n, cls) ==
    {f \in [0..(n - 1) -> {l_True, l_False}] :
        \A cl \in Range(cls) :
            \E l \in cl : XorLbool(f[var(l)], sign(l)) = l_True}

\* gadd (handle, xs)
gadd(xs) ==
    /\ ~S.ub
    /\ Len(S.clauses) < MaxClauses
    /\ LET n == NVarsAfter(wrapper, xs, 1, S.nVars)
           vs == {LitOf(xs[i]) : i \in 1..Len(xs)}
           added == [S EXCEPT
                       !.nVars = n,
                       !.clauses = Append(@, vs),
                       !.frozen = IF wrapper = "gluc"
                                  THEN @ \cup {var(l) : l \in vs} ELSE @]
       IN  IF \A l \in vs : var(l) < n
           THEN /\ S' = added
                /\ gcall' = Call("gadd", xs, GlucModels(n, added.clauses) # {})
           ELSE \* addClause with a variable that was never made
                /\ S' = [added EXCEPT !.ub = TRUE]
                /\ \E res \in BOOLEAN : gcall' = Call("gadd", xs, res)
    /\ UNCHANGED <<vars, lglvars, natvars, wrapper>>

\* S->solve () after which the wrappers return: the result, the model, and
\* the time took that the search lasted
Solved(op, arg, took) ==
    LET found == GlucModels(S.nVars, S.clauses)
    IN  IF S.ub
        THEN /\ \E res \in BOOLEAN : gcall' = Call(op, arg, res)
             /\ S' = [S EXCEPT !.took = took]
        ELSE IF found = {}
        THEN /\ gcall' = Call(op, arg, FALSE)
             /\ S' = [S EXCEPT !.model = << >>, !.took = took]
        ELSE /\ gcall' = Call(op, arg, TRUE)
             /\ \E f \in found : S' = [S EXCEPT !.model = f, !.took = took]

\* gsat (handle)
gsat ==
    /\ \E took \in 0..(MaxT + 1) : Solved("gsat", 0, took)
    /\ UNCHANGED <<vars, lglvars, natvars, wrapper>>

\* gsat_time (handle, t) of gluc and glucp: t is not used
gsat_time(t) ==
    /\ wrapper \in {"gluc", "glucp"}
    /\ \E took \in 0..(MaxT + 1) : Solved("gsat_time", t, took)
    /\ UNCHANGED <<vars, lglvars, natvars, wrapper>>

\* gderef (handle, a) for a variable of the model the last solve found:
\* gluc and JGlucose return toInt (S->modelValue (l)), glucp returns
\* toInt (S->model[varl])
gderef(a) ==
    /\ ~S.ub
    /\ variableOf(a) - 1 \in DOMAIN S.model
    /\ gcall' = Call("gderef", a,
                     IF wrapper = "glucp" THEN S.model[variableOf(a) - 1]
                     ELSE XorLbool(S.model[var(LitOf(a))], sign(LitOf(a))))
    /\ UNCHANGED <<vars, lglvars, natvars, wrapper, S>>

NextGluc ==
    \/ \E xs \in Xs : gadd(xs)
    \/ gsat
    \/ \E t \in 0..MaxT : gsat_time(t)
    \/ \E a \in {-2, -1, 1, 2} : gderef(a)

SpecGluc == InitGluc /\ [][NextGluc]_allvars

(***************************************************************************)
(* Properties of the Glucose wrappers.                                     *)
(***************************************************************************)
\* the int a is true in the model the last solve found
TrueInModel(a) ==
    IF a > 0 THEN S.model[a - 1] = l_True ELSE S.model[-a - 1] = l_False

\* C28: gderef returns the value of the possibly negated variable, 0 for
\* true and 1 for false: gderef (handle, a) = 0 exactly if a is true in the
\* model, and 1 if not, in each wrapper
C28_DerefLiteral ==
    (gcall.op = "gderef") =>
        gcall.val = (IF TrueInModel(gcall.arg) THEN 0 ELSE 1)

\* C29: gsat_time (handle, t) returns true only if the formula was found
\* satisfiable within t; a solve that lasts longer than t is given up and
\* false is returned
C29_Timeout ==
    (gcall.op = "gsat_time" /\ ~S.ub) =>
        /\ gcall.val => /\ GlucModels(S.nVars, S.clauses) # {}
                        /\ S.took <= gcall.arg
        /\ S.took > gcall.arg => ~gcall.val

\* C33: after gadd has returned, every variable of the clause it added
\* exists: abs (a) - 1 < nVars () for each literal a of the clause, in each
\* wrapper
C33_VariablesExist ==
    (gcall.op = "gadd") =>
        \A i \in 1..Len(gcall.arg) : variableOf(gcall.arg[i]) - 1 < S.nVars

(***************************************************************************)
(* The add calls of both boundaries side by side: a Glucose wrapper and a  *)
(* NativeSATSolver, each given clauses in any order.                       *)
(***************************************************************************)
\* ginit and Java_jdrasil_sat_NativeSATSolver_init have returned
InitFrz ==
    /\ InitHandle
    /\ NotStarted
    /\ wrapper \in {"gluc", "glucp", "JGlucose"}
    /\ S = NewSolver
    /\ gcall = Call("ginit", 0, 0)
    /\ backend \in {"Lingeling", "PicoSAT"}
    /\ isTerminated = 0
    /\ currentState = "INPUT"
    /\ instance = ipasir_init
    /\ solveLoc = [pc |-> "idle", result |-> 0]
    /\ jcall = Call("init", 0, 0)

NextFrz ==
    \/ \E xs \in Xs : gadd(xs)
    \/ \E literal \in AddLits : NativeSATSolver_add(literal)

SpecFrz == InitFrz /\ [][NextFrz]_allvars

\* C34: every variable of a clause handed to the engine is frozen: each
\* variable of each literal added through gadd of gluc is frozen, and each
\* literal other than 0 that the Lingeling ipasir_add has given to lgladd
\* was given to lglfreeze in both polarities before, and 0 never was
C34_Frozen ==
    /\ (wrapper = "gluc") =>
           \A i \in 1..Len(S.clauses) : \A l \in S.clauses[i] : var(l) \in S.frozen
    /\ (backend = "Lingeling") =>
           \A k \in 1..Len(instance.log) :
               LET lit == instance.log[k][2]
                   before == {instance.log[i] : i \in 1..(k - 1)}
               IN  IF instance.log[k][1] = "lgladd"
                   THEN lit # 0 => /\ <<"lglfreeze", lit>> \in before
                                   /\ <<"lglfreeze", -lit>> \in before
                   ELSE lit # 0

\* gluc has been given two clauses and Lingeling a clause with a literal
\* and its end, the 0
C34_Witness ==
    /\ wrapper = "gluc"
    /\ Len(S.clauses) = MaxClauses
    /\ backend = "Lingeling"
    /\ Len(instance.added) = MaxAdded
    /\ instance.added[MaxAdded] = 0
    /\ instance.added[1] # 0

(***************************************************************************)
(* The process-wide map isTerminated over several solver objects.  Under   *)
(* SpecMap isTerminated is the whole map, from instance pointers to flags, *)
(* instance is the set of the pointers of the engine instances that were   *)
(* made and not released, and currentState holds, for each Java object,    *)
(* the pointer setInstance stored in it (0: none yet) and its state.       *)
(***************************************************************************)
\* the Java objects of class NativeSATSolver
Objects == {"solver1", "solver2"}

\* two objects on which no native method was called; the map is empty
InitMap ==
    /\ InitHandle
    /\ NotStarted
    /\ GlucOff
    /\ backend \in {"Lingeling", "PicoSAT"}
    /\ isTerminated = << >>
    /\ instance = {}
    /\ currentState = [o \in Objects |->
                          [pointer |-> 0, state |-> ""]]
    /\ solveLoc = [pc |-> "idle", result |-> 0]
    /\ jcall = << >>

\* Java_jdrasil_sat_NativeSATSolver_init on the object o: ipasir_init
\* returns an instance at an address no live instance has
NativeSATSolver_init(o) ==
    /\ \E p \in {1, 2} \ instance :
         /\ instance' = instance \cup {p}
         /\ isTerminated' = (p :> 0) @@ isTerminated
         /\ currentState' = [currentState EXCEPT
                               ![o] = [pointer |-> p, state |-> "INPUT"]]
    /\ jcall' = Call("init", o, 0)
    /\ UNCHANGED <<vars, lglvars, glucvars, backend, solveLoc>>

\* Java_jdrasil_sat_NativeSATSolver_release on an object whose instance is
\* live
NativeSATSolver_release(o) ==
    /\ currentState[o].pointer \in instance
    /\ instance' = instance \ {currentState[o].pointer}
    /\ jcall' = Call("release", o, 0)
    /\ UNCHANGED <<vars, lglvars, glucvars, backend, isTerminated,
                   currentState, solveLoc>>

\* Java_jdrasil_sat_NativeSATSolver_solve on an object whose instance is
\* live, from its entry to its return
NativeSATSolver_solveOf(o) ==
    /\ currentState[o].pointer \in instance
    /\ isTerminated' = (currentState[o].pointer :> 0) @@ isTerminated
    /\ \E result \in {0, 10, 20} :
         /\ currentState' = [currentState EXCEPT ![o].state = StateOf(result)]
         /\ jcall' = Call("solve", o, result)
    /\ UNCHANGED <<vars, lglvars, glucvars, backend, instance, solveLoc>>

\* Java_jdrasil_sat_NativeSATSolver_terminate on an object that init was
\* called on, released or not: the pointer is a key only and is not
\* followed
NativeSATSolver_terminateOf(o) ==
    /\ currentState[o].pointer # 0
    /\ isTerminated' = (currentState[o].pointer :> 1) @@ isTerminated
    /\ jcall' = Call("terminate", o, 0)
    /\ UNCHANGED <<vars, lglvars, glucvars, backend, instance, currentState,
                   solveLoc>>

NextMap ==
    \/ \E o \in Objects : NativeSATSolver_init(o)
    \/ \E o \in Objects : NativeSATSolver_release(o)
    \/ \E o \in Objects : NativeSATSolver_solveOf(o)
    \/ \E o \in Objects : NativeSATSolver_terminateOf(o)

SpecMap == InitMap /\ [][NextMap]_allvars

\* C36: the termination map describes live solvers only: every key of
\* isTerminated is an instance that was initialised and not yet released
C36_LiveKeys == DOMAIN isTerminated \subseteq instance

====
